---- MODULE Spec2Model ----
(***************************************************************************)
(* Vector operations and filter builder of mmfood/qdrant/operations.py,    *)
(* over an abstract vector store (the collection behind QdrantClient), and *)
(* the search, ingest, bulk ingest and orphan cleanup pipelines built on    *)
(* them (mmfood/services, mmfood/ui).                                      *)
(*                                                                         *)
(* Optional values (Python's Optional[T]) are sequences of length <= 1:    *)
(* None is <<>> and a present value v is <<v>>.  A payload is a function   *)
(* from a set of field names to values; the empty dict {} is the function  *)
(* with the empty domain.                                                  *)
(***************************************************************************)
EXTENDS Integers, Sequences, FiniteSets, TLC

\* ------------------------------------------------------------------ bounds
MaxVal == 2
MaxVec == 2
MaxPoints == 3
MaxChunk == 2
MaxLimit == 2
MaxOps == 2
MaxAnd == 2

VARIABLES
    store,       \* the collection: point id -> [vector, payload], ids present only
    lastUpsert,  \* history: id -> payload of the last successful upsert_vector
                 \*          not followed by a delete or another upsert of the id
    call,        \* the last completed vector operation: arguments and return value
    filters,     \* filter builder: the input mapping
    built,       \* filter builder: the value returned for `filters`
    blobs,       \* blob storage: the objects stored, as [id, kind]
    run,         \* the last completed pipeline run: inputs, calls made, outcome
    bulkStore    \* the bulk collection: point id -> [vector, payload]

vars == <<store, lastUpsert, call, filters, built, blobs, run, bulkStore>>

\* ------------------------------------------------------------ value domains
None == <<>>
Some(v) == <<v>>

PointIds == {"a", "b"}
Vals == 1..MaxVal
Vectors == 1..MaxVec
EmptyPayload == [f \in {} |-> 0]
Payloads == {EmptyPayload} \cup {[user_id |-> v, ts |-> v] : v \in Vals}

Min(a, b) == IF a < b THEN a ELSE b

PointStruct(id, vector, payload) ==
    [id |-> id, vector |-> vector, payload |-> payload]

\* ------------------------------------------------- the store (QdrantClient)
\* The collection after a successful upsert request: every point of the
\* request is written, a later point of the same id replacing an earlier one.
StoreUpsert(st, pts) ==
    LET ids == {pts[i].id : i \in 1..Len(pts)}
        last(id) == CHOOSE i \in 1..Len(pts) :
                        /\ pts[i].id = id
                        /\ \A j \in (i+1)..Len(pts) : pts[j].id # id
    IN  [id \in (DOMAIN st) \cup ids |->
            IF id \in ids
            THEN [vector |-> pts[last(id)].vector, payload |-> pts[last(id)].payload]
            ELSE st[id]]

\* client.upsert(points=pts): raises and changes nothing, or applies the request.
ClientUpsert(st, pts, raises) ==
    [raised |-> raises,
     store  |-> IF raises THEN st ELSE StoreUpsert(st, pts)]

\* client.delete(points_selector=ids): raises and changes nothing, or removes the
\* ids that are present; an absent id is not an error.
ClientDelete(st, ids, raises) ==
    [raised |-> raises,
     store  |-> IF raises THEN st ELSE [id \in (DOMAIN st) \ ids |-> st[id]]]

\* client.retrieve(ids=<<id>>, with_payload=True, with_vectors=False): the records
\* of the ids present.  The store may hand back an empty payload as None.
ClientRetrieve(st, id, raises, emptyAsNone) ==
    [raised |-> raises,
     points |-> IF raises \/ id \notin DOMAIN st THEN <<>>
                ELSE <<[id |-> id,
                        payload |-> IF st[id].payload = EmptyPayload /\ emptyAsNone
                                    THEN None ELSE Some(st[id].payload)]>>]

\* Python's `payload or {}`: None and the empty dict both give {}.
OrEmpty(optPayload) ==
    IF optPayload = None THEN EmptyPayload ELSE optPayload[1]

UpsertRequest(pts, ok) == [kind |-> "upsert", points |-> pts, ok |-> ok]

\* --------------------------------------------------------- upsert_vector
\* Every operation below runs inside `try: ... except Exception`: `raised` in its
\* result says whether an exception reaches the caller.
\* Variant: the exception of client.upsert is not caught.
upsert_vector_noCatch(st, vector_id, vector, payload, raises) ==
    LET point == PointStruct(vector_id, vector, payload)
        r == ClientUpsert(st, <<point>>, raises)
    IN  [ok       |-> ~r.raised,
         raised   |-> r.raised,
         requests |-> <<UpsertRequest(<<point>>, ~r.raised)>>,
         store    |-> r.store]

upsert_vector(st, vector_id, vector, payload, raises) ==
    LET point == PointStruct(vector_id, vector, payload)
        r == ClientUpsert(st, <<point>>, raises)
    IN  [ok       |-> ~r.raised,
         raised   |-> FALSE,
         requests |-> <<UpsertRequest(<<point>>, ~r.raised)>>,
         store    |-> r.store]

\* --------------------------------------------------- upsert_vectors_batch
\* The loop `for i in range(0, len(points), chunk_size)` from offset i (0-based),
\* n requests issued so far; `failing` is the set of request numbers at which
\* client.upsert raises.
\* Variant: a failing chunk is skipped and the loop goes on.
RECURSIVE ChunkLoop_keepGoing(_, _, _, _, _, _)
ChunkLoop_keepGoing(st, points, chunk_size, i, reqs, failing) ==
    IF i >= Len(points)
    THEN [ok |-> TRUE, requests |-> reqs, store |-> st]
    ELSE LET batch == SubSeq(points, i + 1, Min(i + chunk_size, Len(points)))
             r == ClientUpsert(st, batch, (Len(reqs) + 1) \in failing)
             rest == ChunkLoop_keepGoing(r.store, points, chunk_size, i + chunk_size,
                                         Append(reqs, UpsertRequest(batch, ~r.raised)),
                                         failing)
         IN  [rest EXCEPT !.ok = rest.ok /\ ~r.raised]

RECURSIVE ChunkLoop(_, _, _, _, _, _)
ChunkLoop(st, points, chunk_size, i, reqs, failing) ==
    IF i >= Len(points)
    THEN [ok |-> TRUE, requests |-> reqs, store |-> st]
    ELSE LET batch == SubSeq(points, i + 1, Min(i + chunk_size, Len(points)))
             r == ClientUpsert(st, batch, (Len(reqs) + 1) \in failing)
         IN  IF r.raised
             THEN [ok       |-> FALSE,
                   requests |-> Append(reqs, UpsertRequest(batch, FALSE)),
                   store    |-> r.store]
             ELSE ChunkLoop(r.store, points, chunk_size, i + chunk_size,
                            Append(reqs, UpsertRequest(batch, TRUE)), failing)

\* Variant: the chunk size is ignored, one request carries every point.
upsert_vectors_batch_unchunked(st, points, chunk_size, failing) ==
    IF points = <<>>
    THEN [ok |-> TRUE, requests |-> <<>>, store |-> st]
    ELSE LET r == ClientUpsert(st, points, 1 \in failing)
         IN  [ok       |-> ~r.raised,
              requests |-> <<UpsertRequest(points, ~r.raised)>>,
              store    |-> r.store]

\* Variant: no early return for an empty point list.
upsert_vectors_batch_noEmptyCheck(st, points, chunk_size, failing) ==
    IF chunk_size # 0 /\ chunk_size > 0
    THEN ChunkLoop(st, points, chunk_size, 0, <<>>, failing)
    ELSE LET r == ClientUpsert(st, points, 1 \in failing)
         IN  [ok       |-> ~r.raised,
              requests |-> <<UpsertRequest(points, ~r.raised)>>,
              store    |-> r.store]

upsert_vectors_batch(st, points, chunk_size, failing) ==
    IF points = <<>>
    THEN [ok |-> TRUE, requests |-> <<>>, store |-> st]
    ELSE IF chunk_size # 0 /\ chunk_size > 0
    THEN ChunkLoop(st, points, chunk_size, 0, <<>>, failing)
    ELSE LET r == ClientUpsert(st, points, 1 \in failing)
         IN  [ok       |-> ~r.raised,
              requests |-> <<UpsertRequest(points, ~r.raised)>>,
              store    |-> r.store]

\* ----------------------------------------------------------- delete_vector
\* Variant: an id that is not in the collection is reported as a failure.
delete_vector_missingIsError(st, vector_id, raises) ==
    LET r == ClientDelete(st, {vector_id}, raises)
    IN  [ok       |-> ~r.raised /\ vector_id \in DOMAIN st,
         requests |-> <<[kind |-> "delete", ids |-> {vector_id}, ok |-> ~r.raised]>>,
         store    |-> r.store]

delete_vector(st, vector_id, raises) ==
    LET r == ClientDelete(st, {vector_id}, raises)
    IN  [ok       |-> ~r.raised,
         requests |-> <<[kind |-> "delete", ids |-> {vector_id}, ok |-> ~r.raised]>>,
         store    |-> r.store]

\* --------------------------------------------------------- get_vector_info
\* Variant: the point is retrieved without its payload.
get_vector_info_noPayload(st, vector_id, raises, emptyAsNone) ==
    LET r == ClientRetrieve(st, vector_id, raises, emptyAsNone)
    IN  [info     |-> IF r.raised \/ r.points = <<>> THEN None
                      ELSE Some([id |-> r.points[1].id, payload |-> OrEmpty(None)]),
         requests |-> <<[kind |-> "retrieve", ids |-> {vector_id}, ok |-> ~r.raised]>>]

get_vector_info(st, vector_id, raises, emptyAsNone) ==
    LET r == ClientRetrieve(st, vector_id, raises, emptyAsNone)
    IN  [info     |-> IF r.raised \/ r.points = <<>> THEN None
                      ELSE Some([id |-> r.points[1].id,
                                 payload |-> OrEmpty(r.points[1].payload)]),
         requests |-> <<[kind |-> "retrieve", ids |-> {vector_id}, ok |-> ~r.raised]>>]

\* ------------------------------------------------- build_filter_conditions
\* A Python value in filter position is [kind, entries]: a dict ("dict", its
\* entries in insertion order, keys distinct) or some other, non-empty value
\* ("other").  An entry is [key, kind, lit, ops, items]: its value is a literal
\* ("lit": a JSON value), an operator object ("ops": <<[op, value], ...>> in insertion order)
\* or a list ("list": the items, each again a value in filter position).
\* A JSON value: a scalar v or a list of scalars.
Scalar(v) == [list |-> FALSE, items |-> <<v>>]
List(vs) == [list |-> TRUE, items |-> vs]

Dict(entries) == [kind |-> "dict", entries |-> entries]
NotADict == [kind |-> "other", entries |-> <<>>]
LitEntry(key, v) == [key |-> key, kind |-> "lit", lit |-> v, ops |-> <<>>, items |-> <<>>]
OpsEntry(key, ops) == [key |-> key, kind |-> "ops", lit |-> Scalar(0), ops |-> ops, items |-> <<>>]
ListEntry(key, items) == [key |-> key, kind |-> "list", lit |-> Scalar(0), ops |-> <<>>, items |-> items]

MatchValue(v) == [value |-> v]
MatchAny(vs) == [any |-> vs]
Range(gte, lte) == [gte |-> gte, lte |-> lte]
FieldCondition(key, match, range) == [key |-> key, match |-> match, range |-> range]
Filter(must) == [must |-> must]

\* Variant: no branch for "$in".
OpCondition_noIn(field, op, value) ==
    IF op = "$eq" THEN <<FieldCondition(field, Some(MatchValue(value)), None)>>
    ELSE IF op = "$gte" THEN <<FieldCondition(field, None, Some(Range(Some(value), None)))>>
    ELSE IF op = "$lte" THEN <<FieldCondition(field, None, Some(Range(None, Some(value))))>>
    ELSE <<>>

\* Variant: "$lte" sets the lower bound, as "$gte" does.
OpCondition_lteAsGte(field, op, value) ==
    IF op = "$eq" THEN <<FieldCondition(field, Some(MatchValue(value)), None)>>
    ELSE IF op = "$in" THEN <<FieldCondition(field, Some(MatchAny(value)), None)>>
    ELSE IF op = "$gte" THEN <<FieldCondition(field, None, Some(Range(Some(value), None)))>>
    ELSE IF op = "$lte" THEN <<FieldCondition(field, None, Some(Range(Some(value), None)))>>
    ELSE <<>>

\* Variant: an operator outside eq/in/gte/lte is matched as an equality.
OpCondition_unknownAsEq(field, op, value) ==
    IF op = "$in" THEN <<FieldCondition(field, Some(MatchAny(value)), None)>>
    ELSE IF op = "$gte" THEN <<FieldCondition(field, None, Some(Range(Some(value), None)))>>
    ELSE IF op = "$lte" THEN <<FieldCondition(field, None, Some(Range(None, Some(value))))>>
    ELSE <<FieldCondition(field, Some(MatchValue(value)), None)>>

\* One operator of an operator object: the `if op == ...` chain.
OpCondition(field, op, value) ==
    IF op = "$eq" THEN <<FieldCondition(field, Some(MatchValue(value)), None)>>
    ELSE IF op = "$in" THEN <<FieldCondition(field, Some(MatchAny(value)), None)>>
    ELSE IF op = "$gte" THEN <<FieldCondition(field, None, Some(Range(Some(value), None)))>>
    ELSE IF op = "$lte" THEN <<FieldCondition(field, None, Some(Range(None, Some(value))))>>
    ELSE <<>>

\* `for op, value in condition.items()` from the j-th operator on.
RECURSIVE OpsConditions(_, _, _)
OpsConditions(field, ops, j) ==
    IF j > Len(ops) THEN <<>>
    ELSE OpCondition(field, ops[j].op, ops[j].value) \o OpsConditions(field, ops, j + 1)

RECURSIVE build_filter_conditions(_)
RECURSIVE NestedConditions(_, _)
RECURSIVE EntriesConditions(_, _)

\* `for nested_filter in condition` from the j-th item on: a dict item adds the
\* `must` of its own filter, any other item and a None result add nothing.
NestedConditions(items, j) ==
    IF j > Len(items) THEN <<>>
    ELSE LET nested_result == IF items[j].kind = "dict"
                              THEN build_filter_conditions(items[j]).filter
                              ELSE None
         IN  (IF nested_result # None THEN nested_result[1].must ELSE <<>>)
             \o NestedConditions(items, j + 1)

\* `for field, condition in filters.items()` from the j-th entry on.
EntriesConditions(entries, j) ==
    IF j > Len(entries) THEN <<>>
    ELSE LET e == entries[j]
             here == IF e.key = "$and"
                     THEN (IF e.kind = "list" THEN NestedConditions(e.items, 1) ELSE <<>>)
                     ELSE IF e.kind = "ops"
                     THEN OpsConditions(e.key, e.ops, 1)
                     ELSE <<FieldCondition(e.key, Some(MatchValue(e.lit)), None)>>
         IN  here \o EntriesConditions(entries, j + 1)

\* [raised, filter]: `filters.items()` raises on a value that is no dict;
\* otherwise Filter(must=conditions), or None when no condition was built.
build_filter_conditions(f) ==
    IF f.kind # "dict"
    THEN [raised |-> TRUE, filter |-> None]
    ELSE LET conditions == EntriesConditions(f.entries, 1)
         IN  [raised |-> FALSE,
              filter |-> IF conditions # <<>> THEN Some(Filter(conditions)) ELSE None]

\* ------------------------------------------------- the store's search
\* Whether a payload satisfies one condition / a (possibly absent) filter.
InList(v, vs) == \E i \in 1..Len(vs) : vs[i] = v

ConditionHolds(payload, c) ==
    /\ c.key \in DOMAIN payload
    /\ c.match # None =>
          IF "value" \in DOMAIN c.match[1]
          THEN ~c.match[1].value.list /\ payload[c.key] = c.match[1].value.items[1]
          ELSE InList(payload[c.key], c.match[1].any.items)
    /\ c.range # None =>
          /\ c.range[1].gte # None => payload[c.key] >= c.range[1].gte[1].items[1]
          /\ c.range[1].lte # None => payload[c.key] <= c.range[1].lte[1].items[1]

FilterHolds(payload, optFilter) ==
    optFilter = None \/
    \A i \in 1..Len(optFilter[1].must) : ConditionHolds(payload, optFilter[1].must[i])

\* Similarity of two vectors: the closer, the higher.
Score(q, v) == MaxVec - (IF q < v THEN v - q ELSE q - v)

Pos(seq, x) == CHOOSE i \in 1..Len(seq) : seq[i] = x

\* The ids of S by descending score, ties in the store's own order `order`.
RECURSIVE Ranked(_, _, _, _)
Ranked(st, q, S, order) ==
    IF S = {} THEN <<>>
    ELSE LET best == CHOOSE id \in S : \A other \in S :
                        \/ Score(q, st[id].vector) > Score(q, st[other].vector)
                        \/ /\ Score(q, st[id].vector) = Score(q, st[other].vector)
                           /\ Pos(order, id) <= Pos(order, other)
         IN  <<best>> \o Ranked(st, q, S \ {best}, order)

\* client.search(query_vector, limit, query_filter, score_threshold,
\* with_payload=True, with_vectors=False): raises, or the best `limit` points
\* that satisfy the filter and reach the threshold.
ClientSearch(st, q, limit, query_filter, score_threshold, raises, order, emptyAsNone) ==
    LET S == {id \in DOMAIN st :
                 /\ FilterHolds(st[id].payload, query_filter)
                 /\ score_threshold # None => Score(q, st[id].vector) >= score_threshold[1]}
        ranked == Ranked(st, q, S, order)
        top == SubSeq(ranked, 1, Min(limit, Len(ranked)))
    IN  [raised |-> raises,
         hits   |-> IF raises THEN <<>>
                    ELSE [i \in 1..Len(top) |->
                            [id |-> top[i],
                             score |-> Score(q, st[top[i]].vector),
                             payload |-> IF st[top[i]].payload = EmptyPayload /\ emptyAsNone
                                         THEN None ELSE Some(st[top[i]].payload)]]]

\* ---------------------------------------------------------- search_vectors
\* `if filters:` -- None and the empty dict are falsy.
Truthy(optFilters) ==
    optFilters # None /\ (optFilters[1].kind = "dict" => optFilters[1].entries # <<>>)

SearchRequest(limit, query_filter, score_threshold, hits, ok) ==
    [kind |-> "search", limit |-> limit, query_filter |-> query_filter,
     score_threshold |-> score_threshold, hits |-> hits, ok |-> ok]

Reverse(seq) == [i \in 1..Len(seq) |-> seq[Len(seq) + 1 - i]]

\* Variant: the hits are returned in reverse order.
search_vectors_reversed(st, query_vector, limit, optFilters, score_threshold, raises, order, emptyAsNone) ==
    LET b == IF Truthy(optFilters) THEN build_filter_conditions(optFilters[1])
             ELSE [raised |-> FALSE, filter |-> None]
        r == ClientSearch(st, query_vector, limit, b.filter, score_threshold,
                          raises, order, emptyAsNone)
    IN  IF b.raised
        THEN [results |-> <<>>, raised |-> FALSE, requests |-> <<>>]
        ELSE IF r.raised
        THEN [results |-> <<>>, raised |-> FALSE,
              requests |-> <<SearchRequest(limit, b.filter, score_threshold, <<>>, FALSE)>>]
        ELSE [results  |-> Reverse([i \in 1..Len(r.hits) |->
                              [id |-> r.hits[i].id,
                               score |-> r.hits[i].score,
                               payload |-> OrEmpty(r.hits[i].payload)]]),
              raised   |-> FALSE,
              requests |-> <<SearchRequest(limit, b.filter, score_threshold, r.hits, TRUE)>>]

\* Variant: score_threshold is not handed to the store.
search_vectors_noThreshold(st, query_vector, limit, optFilters, score_threshold, raises, order, emptyAsNone) ==
    LET b == IF Truthy(optFilters) THEN build_filter_conditions(optFilters[1])
             ELSE [raised |-> FALSE, filter |-> None]
        r == ClientSearch(st, query_vector, limit, b.filter, None,
                          raises, order, emptyAsNone)
    IN  IF b.raised
        THEN [results |-> <<>>, raised |-> FALSE, requests |-> <<>>]
        ELSE IF r.raised
        THEN [results |-> <<>>, raised |-> FALSE,
              requests |-> <<SearchRequest(limit, b.filter, None, <<>>, FALSE)>>]
        ELSE [results  |-> [i \in 1..Len(r.hits) |->
                              [id |-> r.hits[i].id,
                               score |-> r.hits[i].score,
                               payload |-> OrEmpty(r.hits[i].payload)]],
              raised   |-> FALSE,
              requests |-> <<SearchRequest(limit, b.filter, None, r.hits, TRUE)>>]

search_vectors(st, query_vector, limit, optFilters, score_threshold, raises, order, emptyAsNone) ==
    LET b == IF Truthy(optFilters) THEN build_filter_conditions(optFilters[1])
             ELSE [raised |-> FALSE, filter |-> None]
        r == ClientSearch(st, query_vector, limit, b.filter, score_threshold,
                          raises, order, emptyAsNone)
    IN  IF b.raised
        THEN [results |-> <<>>, raised |-> FALSE, requests |-> <<>>]
        ELSE IF r.raised
        THEN [results |-> <<>>, raised |-> FALSE,
              requests |-> <<SearchRequest(limit, b.filter, score_threshold, <<>>, FALSE)>>]
        ELSE [results  |-> [i \in 1..Len(r.hits) |->
                              [id |-> r.hits[i].id,
                               score |-> r.hits[i].score,
                               payload |-> OrEmpty(r.hits[i].payload)]],
              raised   |-> FALSE,
              requests |-> <<SearchRequest(limit, b.filter, score_threshold, r.hits, TRUE)>>]

\* =========================================================================
\* The vector operations as a state machine: each action is one call of one
\* operation on the current collection, with the store's behaviour during the
\* call (a request raising, tie order, None for an empty payload) as its input.
\* `call` holds the call's arguments and return value until the caller has
\* taken them (Return); calls are sequential, one at a time.
\* =========================================================================
\* No pipeline has run.
NoRun == [op |-> "none"]

NoCall ==
    [op |-> "none", id |-> "", vector |-> 0, payload |-> EmptyPayload,
     points |-> <<>>, chunk_size |-> 0, limit |-> 0, score_threshold |-> None,
     optFilters |-> None, ok |-> FALSE, raised |-> FALSE, results |-> <<>>, info |-> None,
     requests |-> <<>>, before |-> EmptyPayload]

\* Point lists handed to upsert_vectors_batch: up to MaxPoints points, ids free
\* (repeats included), one payload for the list.
BatchInputs ==
    UNION {{[i \in 1..n |-> PointStruct(ids[i], 1, p)] :
                ids \in [1..n -> PointIds], p \in Payloads \ {EmptyPayload}} :
           n \in 0..MaxPoints}

ChunkSizes == (-1)..MaxChunk

\* Request numbers at which the store raises during one batch call: never, at
\* request j only, or from request j on.
FailurePatterns ==
    {{}} \cup {{j} : j \in 1..MaxPoints} \cup {j..MaxPoints : j \in 1..MaxPoints}

Thresholds == {None} \cup {Some(t) : t \in 1..MaxVec}

Orders == {<<"a", "b">>, <<"b", "a">>}

EqOp(v) == [op |-> "$eq", value |-> Scalar(v)]
GteOp(v) == [op |-> "$gte", value |-> Scalar(v)]
LteOp(v) == [op |-> "$lte", value |-> Scalar(v)]

\* Filters handed to search_vectors: none, the empty dict, a value that is no
\* dict, an owner equality, and an equality of owner 1 with a timestamp range.
SearchFilters ==
    {None, Some(Dict(<<>>)), Some(NotADict)}
    \cup {Some(Dict(<<OpsEntry("user_id", <<EqOp(v)>>)>>)) : v \in Vals}
    \cup {Some(Dict(<<OpsEntry("user_id", <<EqOp(1)>>),
                      OpsEntry("ts", <<GteOp(lo), LteOp(MaxVal)>>)>>)) : lo \in Vals}

\* Ids written by the successful requests of a call.
WrittenIds(requests) ==
    UNION {{requests[n].points[i].id : i \in 1..Len(requests[n].points)} :
           n \in {m \in 1..Len(requests) : requests[m].ok}}

Without(f, ids) == [x \in (DOMAIN f) \ ids |-> f[x]]

UpsertVectorCall ==
    /\ call.op = "none"
    /\ \E id \in PointIds, vector \in Vectors, payload \in Payloads, raises \in BOOLEAN :
        LET r == upsert_vector(store, id, vector, payload, raises)
        IN  /\ store' = r.store
            /\ lastUpsert' = IF r.ok
                             THEN [x \in (DOMAIN lastUpsert) \cup {id} |->
                                     IF x = id THEN payload ELSE lastUpsert[x]]
                             ELSE lastUpsert
            /\ call' = [NoCall EXCEPT !.op = "upsert_vector", !.id = id,
                            !.vector = vector, !.payload = payload, !.ok = r.ok,
                            !.raised = r.raised, !.requests = r.requests, !.before = store]
            /\ UNCHANGED <<filters, built, blobs, run, bulkStore>>

UpsertVectorsBatchCall ==
    /\ call.op = "none"
    /\ \E points \in BatchInputs, chunk_size \in ChunkSizes, failing \in FailurePatterns :
        LET r == upsert_vectors_batch(store, points, chunk_size, failing)
        IN  /\ store' = r.store
            /\ lastUpsert' = Without(lastUpsert, WrittenIds(r.requests))
            /\ call' = [NoCall EXCEPT !.op = "upsert_vectors_batch", !.points = points,
                            !.chunk_size = chunk_size, !.ok = r.ok,
                            !.requests = r.requests, !.before = store]
            /\ UNCHANGED <<filters, built, blobs, run, bulkStore>>

DeleteVectorCall ==
    /\ call.op = "none"
    /\ \E id \in PointIds, raises \in BOOLEAN :
        LET r == delete_vector(store, id, raises)
        IN  /\ store' = r.store
            /\ lastUpsert' = IF r.ok THEN Without(lastUpsert, {id}) ELSE lastUpsert
            /\ call' = [NoCall EXCEPT !.op = "delete_vector", !.id = id, !.ok = r.ok,
                            !.requests = r.requests, !.before = store]
            /\ UNCHANGED <<filters, built, blobs, run, bulkStore>>

GetVectorInfoCall ==
    /\ call.op = "none"
    /\ \E id \in PointIds, raises \in BOOLEAN, emptyAsNone \in BOOLEAN :
        LET r == get_vector_info(store, id, raises, emptyAsNone)
        IN  /\ call' = [NoCall EXCEPT !.op = "get_vector_info", !.id = id,
                            !.info = r.info, !.requests = r.requests, !.before = store]
            /\ UNCHANGED <<store, lastUpsert, filters, built, blobs, run, bulkStore>>

SearchVectorsCall ==
    /\ call.op = "none"
    /\ \E q \in Vectors, limit \in 1..MaxLimit, f \in SearchFilters, t \in Thresholds,
       raises \in BOOLEAN, order \in Orders, emptyAsNone \in BOOLEAN :
        LET r == search_vectors(store, q, limit, f, t, raises, order, emptyAsNone)
        IN  /\ call' = [NoCall EXCEPT !.op = "search_vectors", !.vector = q,
                            !.limit = limit, !.optFilters = f, !.score_threshold = t,
                            !.results = r.results, !.raised = r.raised,
                            !.requests = r.requests,
                            !.before = store]
            /\ UNCHANGED <<store, lastUpsert, filters, built, blobs, run, bulkStore>>

Return ==
    /\ call.op # "none"
    /\ call' = NoCall
    /\ UNCHANGED <<store, lastUpsert, filters, built, blobs, run, bulkStore>>

Init ==
    /\ store = EmptyPayload
    /\ lastUpsert = EmptyPayload
    /\ call = NoCall
    /\ filters = Dict(<<>>)
    /\ built = None
    /\ blobs = {}
    /\ bulkStore = EmptyPayload
    /\ run = NoRun

Next ==
    \/ UpsertVectorCall
    \/ UpsertVectorsBatchCall
    \/ DeleteVectorCall
    \/ GetVectorInfoCall
    \/ SearchVectorsCall
    \/ Return

Spec == Init /\ [][Next]_vars

\* =========================================================================
\* Properties of the vector operations (checked under Spec)
\* =========================================================================
Ceil(n, k) == (n + k - 1) \div k

RECURSIVE ConcatPoints(_)
ConcatPoints(reqs) ==
    IF reqs = <<>> THEN <<>> ELSE Head(reqs).points \o ConcatPoints(Tail(reqs))

IsPrefix(s, t) == Len(s) <= Len(t) /\ s = SubSeq(t, 1, Len(s))

AllOk(reqs) == \A n \in 1..Len(reqs) : reqs[n].ok

\* The collection after writing the points of `pts` one at a time, in order.
RECURSIVE Written(_, _)
Written(st, pts) ==
    IF pts = <<>> THEN st
    ELSE Written([id \in (DOMAIN st) \cup {Head(pts).id} |->
                     IF id = Head(pts).id
                     THEN [vector |-> Head(pts).vector, payload |-> Head(pts).payload]
                     ELSE st[id]],
                 Tail(pts))

BatchCalled == call.op = "upsert_vectors_batch"

\* C1 as stated: a batch upsert of N >= 1 points issues exactly one request with
\* all points when chunk_size <= 0, and exactly ceil(N/k) requests of at most k
\* points each, concatenating to the input, when chunk_size = k > 0.
C1_Original ==
    (BatchCalled /\ Len(call.points) >= 1) =>
        /\ call.chunk_size <= 0 =>
              /\ Len(call.requests) = 1
              /\ call.requests[1].points = call.points
        /\ call.chunk_size > 0 =>
              /\ Len(call.requests) = Ceil(Len(call.points), call.chunk_size)
              /\ \A n \in 1..Len(call.requests) :
                    Len(call.requests[n].points) <= call.chunk_size
              /\ ConcatPoints(call.requests) = call.points

\* C1 amended: with chunk_size <= 0 there is exactly one request carrying all N
\* points; with chunk_size = k > 0 there are at most ceil(N/k) requests, each of
\* at most k points, concatenating in issue order to a prefix of the input, and
\* when none of the requests fails there are exactly ceil(N/k) of them and they
\* concatenate to the whole input.
C1_Amended ==
    (BatchCalled /\ Len(call.points) >= 1) =>
        /\ call.chunk_size <= 0 =>
              /\ Len(call.requests) = 1
              /\ call.requests[1].points = call.points
        /\ call.chunk_size > 0 =>
              /\ Len(call.requests) <= Ceil(Len(call.points), call.chunk_size)
              /\ \A n \in 1..Len(call.requests) :
                    Len(call.requests[n].points) <= call.chunk_size
              /\ IsPrefix(ConcatPoints(call.requests), call.points)
              /\ AllOk(call.requests) =>
                    /\ Len(call.requests) = Ceil(Len(call.points), call.chunk_size)
                    /\ ConcatPoints(call.requests) = call.points

\* A batch of 3 points in chunks of 2 went through as 2 requests.
C1_Witness ==
    /\ BatchCalled /\ call.ok
    /\ Len(call.points) = 3 /\ call.chunk_size = 2 /\ Len(call.requests) = 2
    /\ call.points[1].id # call.points[2].id

\* C2: a batch upsert returns success exactly when every request it issued
\* succeeded; when request j fails it returns failure, j is the last request
\* issued, and the collection holds the chunks before j on top of what it held.
C2_FailFast ==
    BatchCalled =>
        /\ call.ok <=> AllOk(call.requests)
        /\ \A j \in 1..Len(call.requests) :
              ~call.requests[j].ok =>
                  /\ ~call.ok
                  /\ j = Len(call.requests)
                  /\ store = Written(call.before,
                                     ConcatPoints(SubSeq(call.requests, 1, j - 1)))

\* Three chunks of one point, the second request failed: the first is applied.
C2_Witness ==
    /\ BatchCalled /\ ~call.ok
    /\ Len(call.points) = 3 /\ call.chunk_size = 1 /\ Len(call.requests) = 2
    /\ store # call.before

\* C3: a batch upsert of an empty point list returns success and issues no
\* request, whatever the chunk size (and whatever the store would have done).
C3_EmptyBatch ==
    (BatchCalled /\ call.points = <<>>) =>
        call.ok /\ call.requests = <<>> /\ store = call.before

C3_Witness ==
    BatchCalled /\ call.points = <<>> /\ call.chunk_size = 0 /\ call.ok

\* C4: upsert_vector never raises; it returns true exactly when the store
\* accepted the request, the collection then holds the point, and on failure
\* it returns false with the collection unchanged.
C4_UpsertDegrades ==
    call.op = "upsert_vector" =>
        /\ ~call.raised
        /\ call.ok <=> call.requests[1].ok
        /\ call.ok => store = Written(call.before,
                                      <<PointStruct(call.id, call.vector, call.payload)>>)
        /\ ~call.ok => store = call.before

\* A failed upsert on a collection that already holds a point.
C4_Witness ==
    call.op = "upsert_vector" /\ ~call.ok /\ DOMAIN call.before # {}

\* C5: search_vectors never raises; it returns the empty list when the filter
\* cannot be built or the store's search fails, and otherwise the store's hits
\* in the store's order, each as id, score and payload.
C5_SearchDegrades ==
    call.op = "search_vectors" =>
        /\ ~call.raised
        /\ (Truthy(call.optFilters) /\ build_filter_conditions(call.optFilters[1]).raised)
              => call.results = <<>> /\ call.requests = <<>>
        /\ (call.requests # <<>> /\ ~call.requests[1].ok) => call.results = <<>>
        /\ (call.requests # <<>> /\ call.requests[1].ok) =>
              LET hits == call.requests[1].hits
              IN  /\ Len(call.results) = Len(hits)
                  /\ \A i \in 1..Len(hits) :
                        /\ DOMAIN call.results[i] = {"id", "score", "payload"}
                        /\ call.results[i].id = hits[i].id
                        /\ call.results[i].score = hits[i].score
                        /\ call.results[i].payload =
                              (IF hits[i].payload = None THEN EmptyPayload
                               ELSE hits[i].payload[1])
        /\ call.requests = <<>> =>
              (Truthy(call.optFilters) /\ call.optFilters[1].kind # "dict")

\* Two hits of different scores were returned.
C5_Witness ==
    /\ call.op = "search_vectors" /\ Len(call.results) = 2
    /\ call.results[1].score > call.results[2].score

GetCalled == call.op = "get_vector_info"

\* C6 as stated: after a successful upsert_vector of an id, and until the id is
\* deleted or upserted again, get_vector_info of the id returns the id and the
\* payload that was upserted.
C6_Original ==
    (GetCalled /\ call.id \in DOMAIN lastUpsert) =>
        call.info = Some([id |-> call.id, payload |-> lastUpsert[call.id]])

\* C6 amended: the same, whenever the store's retrieve request does not fail;
\* when it fails, get_vector_info returns None.
C6_Amended ==
    (GetCalled /\ call.id \in DOMAIN lastUpsert) =>
        /\ call.requests[1].ok =>
              call.info = Some([id |-> call.id, payload |-> lastUpsert[call.id]])
        /\ ~call.requests[1].ok => call.info = None

\* A point upserted with a non-empty payload was read back.
C6_Witness ==
    /\ GetCalled /\ call.id \in DOMAIN lastUpsert
    /\ call.info # None /\ lastUpsert[call.id] # EmptyPayload

DeleteCalled == call.op = "delete_vector"

\* C7 as stated: deleting an id that is not in the collection returns success
\* and leaves the collection unchanged, and deleting the id once more leaves the
\* collection as the first delete left it.
C7_Original ==
    DeleteCalled =>
        /\ call.id \notin DOMAIN call.before => call.ok /\ store = call.before
        /\ \A raises \in BOOLEAN : delete_vector(store, call.id, raises).store = store

\* C7 amended: deleting an id that is not in the collection leaves the
\* collection unchanged and returns success unless the store's delete request
\* itself fails (then it returns false); after a delete that returned success
\* the id is gone, the other points are untouched, and deleting the id once
\* more leaves the collection as it is.
C7_Amended ==
    DeleteCalled =>
        /\ call.ok <=> call.requests[1].ok
        /\ call.id \notin DOMAIN call.before => store = call.before
        /\ call.ok =>
              /\ store = [id \in (DOMAIN call.before) \ {call.id} |-> call.before[id]]
              /\ \A raises \in BOOLEAN :
                    delete_vector(store, call.id, raises).store = store

\* A successful delete of an id that was not there, in a non-empty collection.
C7_Witness ==
    /\ DeleteCalled /\ call.ok
    /\ call.id \notin DOMAIN call.before /\ DOMAIN call.before # {}

\* C8: no result of search_vectors has a score below the score_threshold that
\* was given, and there are at most `limit` results.
C8_ThresholdAndLimit ==
    call.op = "search_vectors" =>
        /\ Len(call.results) <= call.limit
        /\ call.score_threshold # None =>
              \A i \in 1..Len(call.results) :
                  call.results[i].score >= call.score_threshold[1]

\* An unfiltered search with room for both points returned one: the threshold
\* kept the other out.
C8_Witness ==
    /\ call.op = "search_vectors" /\ call.score_threshold # None
    /\ call.optFilters = None /\ call.limit = 2
    /\ Cardinality(DOMAIN call.before) = 2 /\ Len(call.results) = 1

\* =========================================================================
\* The filter builder on its own: Init draws a filter mapping, BuildFilter
\* applies build_filter_conditions to it.
\* =========================================================================
KnownOps == {"$eq", "$in", "$gte", "$lte"}
Ops == KnownOps \cup {"$ne"}
FieldNames == {"user_id", "ts"}

\* The value of an operator: a scalar, and for "$in" the list 1..v.
OpPair(op, v) ==
    [op |-> op, value |-> IF op = "$in" THEN List([i \in 1..v |-> i]) ELSE Scalar(v)]

\* Operator objects: up to MaxOps operators, each at most once, in any order.
OpObjects ==
    UNION {{[i \in 1..n |-> OpPair(os[i], vs[i])] :
                os \in {f \in [1..n -> Ops] : \A i, j \in 1..n : i # j => f[i] # f[j]},
                vs \in [1..n -> Vals]} :
           n \in 0..MaxOps}

SimpleEntries(field) ==
    {LitEntry(field, Scalar(v)) : v \in Vals}
    \cup {OpsEntry(field, <<OpPair(op, v)>>) : op \in Ops, v \in Vals}

\* Items of an "$and" list: the empty dict, a value that is no dict, one simple
\* entry, a two-sided range, or a dict holding an "$and" list of its own.
InnermostFilters == {Dict(<<OpsEntry("ts", <<EqOp(v)>>)>>) : v \in Vals}

AndItems ==
    {Dict(<<>>), NotADict}
    \cup {Dict(<<e>>) : e \in SimpleEntries("ts")}
    \cup {Dict(<<OpsEntry("ts", <<GteOp(1), LteOp(v)>>)>>) : v \in Vals}
    \cup {Dict(<<ListEntry("$and", <<>>)>>)}
    \cup {Dict(<<ListEntry("$and", <<f>>)>>) : f \in InnermostFilters}

OwnerEntries ==
    {LitEntry("user_id", Scalar(v)) : v \in Vals}
    \cup {OpsEntry("user_id", <<EqOp(v)>>) : v \in Vals}

\* The mappings handed to build_filter_conditions.  Without "$and": empty, one
\* field, or two fields.  With "$and": a list of up to MaxAnd items alone, before
\* or after an owner entry, or "$and" mapped to a value that is no list.
FilterInit ==
    /\ store = EmptyPayload
    /\ lastUpsert = EmptyPayload
    /\ call = NoCall
    /\ built = None
    /\ blobs = {}
    /\ bulkStore = EmptyPayload
    /\ run = NoRun
    /\ \/ filters = Dict(<<>>)
       \/ \E f \in FieldNames, v \in Vals : filters = Dict(<<LitEntry(f, Scalar(v))>>)
       \/ \E f \in FieldNames, o \in OpObjects : filters = Dict(<<OpsEntry(f, o)>>)
       \/ \E f1 \in FieldNames, o \in OpObjects :
             \E f2 \in FieldNames \ {f1} : \E e2 \in SimpleEntries(f2) :
                 filters = Dict(<<OpsEntry(f1, o), e2>>)
       \/ \E f1 \in FieldNames, v \in Vals :
             \E f2 \in FieldNames \ {f1} : \E e2 \in SimpleEntries(f2) :
                 filters = Dict(<<LitEntry(f1, Scalar(v)), e2>>)
       \/ \E n \in 0..MaxAnd : \E l \in [1..n -> AndItems] :
             \/ filters = Dict(<<ListEntry("$and", l)>>)
             \/ \E e \in OwnerEntries : filters = Dict(<<e, ListEntry("$and", l)>>)
             \/ \E e \in OwnerEntries : filters = Dict(<<ListEntry("$and", l), e>>)
       \/ \E v \in Vals : filters = Dict(<<LitEntry("$and", Scalar(v))>>)

BuildFilter ==
    /\ built = None
    /\ built' = Some(build_filter_conditions(filters))
    /\ UNCHANGED <<store, lastUpsert, call, filters, blobs, run, bulkStore>>

FilterNext == BuildFilter

FilterSpec == FilterInit /\ [][FilterNext]_vars

\* ------------------------------------------------------------- properties
\* Whether a mapping holds only eq/in/gte/lte operators, literal values and
\* "$and" lists of such mappings.
RECURSIVE OnlyKnown(_)
OnlyKnown(f) ==
    /\ f.kind = "dict"
    /\ \A j \in 1..Len(f.entries) :
          LET e == f.entries[j]
          IN  IF e.key = "$and"
              THEN e.kind = "list" /\ \A k \in 1..Len(e.items) : OnlyKnown(e.items[k])
              ELSE \/ e.kind = "lit"
                   \/ e.kind = "ops" /\ \A k \in 1..Len(e.ops) : e.ops[k].op \in KnownOps

\* The number of leaf operators of such a mapping, a literal counting as one.
RECURSIVE LeafCount(_)
RECURSIVE SumLeaves(_, _)
SumLeaves(fs, j) ==
    IF j > Len(fs) THEN 0 ELSE LeafCount(fs[j]) + SumLeaves(fs, j + 1)

RECURSIVE EntryLeaves(_, _)
EntryLeaves(entries, j) ==
    IF j > Len(entries) THEN 0
    ELSE (IF entries[j].key = "$and" THEN SumLeaves(entries[j].items, 1)
          ELSE IF entries[j].kind = "ops" THEN Len(entries[j].ops)
          ELSE 1)
         + EntryLeaves(entries, j + 1)

LeafCount(f) == EntryLeaves(f.entries, 1)

\* C9: for a mapping of eq/in/gte/lte operators, literals and "$and" lists, the
\* filter built is a conjunction of as many conditions as the mapping has leaf
\* operators, nested "$and" lists included (with no leaf at all: no filter,
\* the empty conjunction).
C9_ConditionCount ==
    (built # None /\ OnlyKnown(filters)) =>
        /\ ~built[1].raised
        /\ LeafCount(filters) > 0 =>
              /\ built[1].filter # None
              /\ Len(built[1].filter[1].must) = LeafCount(filters)
        /\ LeafCount(filters) = 0 => built[1].filter = None

\* An owner entry and an "$and" list that itself holds an "$and" list: three
\* conditions from three levels.
C9_Witness ==
    /\ built # None /\ OnlyKnown(filters) /\ LeafCount(filters) = 3
    /\ Len(filters.entries) = 2 /\ filters.entries[2].key = "$and"
    /\ \E k \in 1..Len(filters.entries[2].items) :
          LET item == filters.entries[2].items[k]
          IN  /\ item.kind = "dict" /\ item.entries # <<>>
              /\ item.entries[1].key = "$and" /\ item.entries[1].items # <<>>

HasOp(e, op) == \E k \in 1..Len(e.ops) : e.ops[k].op = op
OpValueOf(e, op) == e.ops[CHOOSE k \in 1..Len(e.ops) : e.ops[k].op = op].value

\* The top-level entries of `filters` whose operator object holds both bounds.
TwoSided ==
    {j \in 1..Len(filters.entries) :
        /\ filters.entries[j].key # "$and"
        /\ filters.entries[j].kind = "ops"
        /\ HasOp(filters.entries[j], "$gte") /\ HasOp(filters.entries[j], "$lte")}

\* No "$and" at the top level: every field has one entry.
NoAnd == \A j \in 1..Len(filters.entries) : filters.entries[j].key # "$and"

\* The range conditions built for a field.
RangesOf(field) ==
    {i \in 1..Len(built[1].filter[1].must) :
        /\ built[1].filter[1].must[i].key = field
        /\ built[1].filter[1].must[i].range # None}

\* C10 as stated: a field's operator object with both gte and lte gives one
\* range condition for the field, carrying both bounds.
C10_Original ==
    (built # None /\ NoAnd) =>
        \A j \in TwoSided :
            LET e == filters.entries[j]
            IN  /\ Cardinality(RangesOf(e.key)) = 1
                /\ \A i \in RangesOf(e.key) :
                      built[1].filter[1].must[i].range =
                          Some(Range(Some(OpValueOf(e, "$gte")), Some(OpValueOf(e, "$lte"))))

\* C10 amended: it gives two range conditions for the field, one carrying only
\* the gte bound and one carrying only the lte bound; AND-ed in the filter they
\* admit exactly the values between the two bounds, as one two-sided range
\* would (checked on the filter of a mapping whose single entry holds just the
\* two bounds).
C10_Amended ==
    (built # None /\ NoAnd) =>
        \A j \in TwoSided :
            LET e == filters.entries[j]
                lo == OpValueOf(e, "$gte").items[1]
                hi == OpValueOf(e, "$lte").items[1]
                must == built[1].filter[1].must
            IN  /\ Cardinality(RangesOf(e.key)) = 2
                /\ \E i \in RangesOf(e.key) :
                      must[i].range = Some(Range(Some(Scalar(lo)), None))
                /\ \E i \in RangesOf(e.key) :
                      must[i].range = Some(Range(None, Some(Scalar(hi))))
                /\ (Len(filters.entries) = 1 /\ Len(e.ops) = 2) =>
                      \A v \in 0..(MaxVal + 1) :
                          FilterHolds([f \in {e.key} |-> v], built[1].filter)
                              <=> (lo <= v /\ v <= hi)

\* {"ts": {"$gte": 1, "$lte": 2}} was built.
C10_Witness ==
    /\ built # None /\ Len(filters.entries) = 1 /\ NoAnd /\ TwoSided # {}
    /\ Len(filters.entries[1].ops) = 2
    /\ OpValueOf(filters.entries[1], "$gte").items[1]
          < OpValueOf(filters.entries[1], "$lte").items[1]

\* The mapping with every operator outside eq/in/gte/lte removed, at any depth.
RECURSIVE StripUnknown(_)
StripEntry(e) ==
    IF e.kind = "ops"
    THEN OpsEntry(e.key, SelectSeq(e.ops, LAMBDA o : o.op \in KnownOps))
    ELSE IF e.kind = "list"
    THEN ListEntry(e.key, [k \in 1..Len(e.items) |-> StripUnknown(e.items[k])])
    ELSE e

StripUnknown(f) ==
    IF f.kind # "dict" THEN f
    ELSE Dict([j \in 1..Len(f.entries) |-> StripEntry(f.entries[j])])

\* Whether a mapping holds an operator outside eq/in/gte/lte at its top level.
HasUnknownOp(f) ==
    \E j \in 1..Len(f.entries) :
        /\ f.entries[j].kind = "ops"
        /\ \E k \in 1..Len(f.entries[j].ops) : f.entries[j].ops[k].op \notin KnownOps

\* Mappings from which nothing can be built: empty, operator objects holding
\* unknown operators only, or an empty "$and" list.
NothingToBuild(f) ==
    \A j \in 1..Len(f.entries) :
        LET e == f.entries[j]
        IN  \/ e.kind = "ops" /\ e.key # "$and"
               /\ \A k \in 1..Len(e.ops) : e.ops[k].op \notin KnownOps
            \/ e.kind = "list" /\ e.key = "$and" /\ e.items = <<>>

\* C11: build_filter_conditions does not raise on a mapping with unknown
\* operator keys; such a key adds no condition and leaves the conditions of
\* the other keys and fields as they are (the filter is the one built from the
\* mapping without the unknown keys); a mapping from which no condition is
\* built (empty, unknown operators only, an empty "$and" list) gives None,
\* which every payload satisfies.
C11_UnknownIgnored ==
    built # None =>
        /\ ~built[1].raised
        /\ built[1].filter = build_filter_conditions(StripUnknown(filters)).filter
        /\ \A j \in 1..Len(filters.entries) :
              (filters.entries[j].kind = "ops" /\ filters.entries[j].key # "$and") =>
                  \A k \in 1..Len(filters.entries[j].ops) :
                      filters.entries[j].ops[k].op \notin KnownOps =>
                          OpCondition(filters.entries[j].key, filters.entries[j].ops[k].op,
                                      filters.entries[j].ops[k].value) = <<>>
        /\ NothingToBuild(filters) =>
              /\ built[1].filter = None
              /\ \A p \in Payloads : FilterHolds(p, built[1].filter)

\* {"user_id": {"$ne": .., "$eq": ..}, ..} was built: the unknown operator
\* stands before a known one and a filter came out.
C11_Witness ==
    /\ built # None /\ HasUnknownOp(filters) /\ built[1].filter # None
    /\ filters.entries[1].kind = "ops" /\ Len(filters.entries[1].ops) = 2
    /\ filters.entries[1].ops[1].op \notin KnownOps

\* =========================================================================
\* The search pipeline: SearchService.execute_search, the filter it builds,
\* and the search tab and bulk search tab that call it.  A pipeline run is one
\* action; `run` keeps its inputs, the calls it made to its collaborators
\* (clients, embedding, vector store, metrics store) in the order it made
\* them, and what it returned.  The collaborators' behaviour during the run
\* (which call raises, the embedding returned, the id the metrics store
\* assigns) is an input of the action.  Writes to the metrics store succeed.
\* Scores and score thresholds are counted in tenths: 1 stands for 0.1.
\* =========================================================================
Days == 0..1
MealTypes == 1..2
RequestIds == {"r1", "r2"}
IdOrder == <<"a", "b">>

\* datetime.time(h, m, s) as the second of its day, and datetime.combine.
dtime(h, m, s) == (h * 60 + m) * 60 + s
combine(d, t) == [day |-> d, sec |-> t]

\* Seconds since 00:00:00 of day 0.
to_unix_ts(dt) == dt.day * 86400 + dt.sec

\* A date range as the date picker hands it over: no date, one date, or a
\* (start, end) tuple.
DateRanges == {<<>>, <<0>>, <<0, 1>>, <<1, 1>>}

MealTypeLists == {<<>>, <<1>>, <<1, 2>>}

InOp(vs) == [op |-> "$in", value |-> List(vs)]

\* Variant: the range ends at 00:00:00 of the end date.
_build_filters_endAtMidnight(user_id, date_range, meal_types) ==
    Dict(<<OpsEntry("user_id", <<EqOp(user_id)>>)>>
         \o (IF Len(date_range) = 2
             THEN <<OpsEntry("ts",
                       <<GteOp(to_unix_ts(combine(date_range[1], dtime(0, 0, 0)))),
                         LteOp(to_unix_ts(combine(date_range[2], dtime(0, 0, 0))))>>)>>
             ELSE <<>>)
         \o (IF meal_types # <<>> THEN <<OpsEntry("meal_type", <<InOp(meal_types)>>)>>
             ELSE <<>>))

\* SearchService._build_filters.
_build_filters(user_id, date_range, meal_types) ==
    Dict(<<OpsEntry("user_id", <<EqOp(user_id)>>)>>
         \o (IF Len(date_range) = 2
             THEN <<OpsEntry("ts",
                       <<GteOp(to_unix_ts(combine(date_range[1], dtime(0, 0, 0)))),
                         LteOp(to_unix_ts(combine(date_range[2], dtime(23, 59, 59))))>>)>>
             ELSE <<>>)
         \o (IF meal_types # <<>> THEN <<OpsEntry("meal_type", <<InOp(meal_types)>>)>>
             ELSE <<>>))

\* The blobs of an item and the keys under which its point refers to them.
ImageKey(image_id) == [id |-> image_id, kind |-> "image"]
VectorKey(image_id) == [id |-> image_id, kind |-> "json"]

\* One call made by a pipeline run.
Event(kind, data) == [kind |-> kind, data |-> data]

\* The steps of execute_search's try block that can raise, in program order:
\* creating the clients, validate_collection_config, ensure_payload_indexes,
\* generate_mm_embedding, and evaluating the search step.
SearchStages == <<"clients", "validate", "indexes", "embed", "search">>

StageNo(stages, s) == CHOOSE i \in 1..Len(stages) : stages[i] = s

\* Whether a step is entered, and whether it is passed, when `failAt` is the
\* step that raises ("none": no step raises).
Reached(stages, s, failAt) ==
    failAt = "none" \/ StageNo(stages, s) <= StageNo(stages, failAt)
Passed(stages, s, failAt) ==
    failAt = "none" \/ StageNo(stages, s) < StageNo(stages, failAt)

\* The dimension the collection was created with: config.output_dim, or not.
Dims == {"output_dim", "another_dim"}

\* validate_collection_config(client, name, output_dim): raises when the
\* collection's dimension differs from output_dim.
validate_collection_config(collection_dim, output_dim) ==
    [raised |-> collection_dim # output_dim]

\* The step of `stages` that raises in a run: `failAt`, the step that raises
\* because its collaborator is unavailable ("none": no such step), or the
\* validation of the collection when it is reached first and the dimensions
\* differ.
FirstFailure(stages, failAt, validateStage, collection_dim) ==
    IF /\ validate_collection_config(collection_dim, "output_dim").raised
       /\ (failAt = "none" \/ StageNo(stages, validateStage) <= StageNo(stages, failAt))
    THEN validateStage
    ELSE failAt

\* MetricsTimer.duration_ms: None until the `with` block is left (normally or
\* by an exception), then the time spent.
TimerOf(entered) == IF entered THEN Some(1) ELSE None

\* `t.duration_ms if t.duration_ms else 0`.
OrZero(duration_ms) ==
    IF duration_ms = None \/ duration_ms[1] = 0 THEN 0 ELSE duration_ms[1]


\* The try block of execute_search (lines 64-122) when `f` is the step that
\* raises and `sv` is what search_vectors returns: the calls made, the timers,
\* and the results.
SearchBody(f, sv, request_id, query_mode) ==
    [raised    |-> f # "none",
     error     |-> f,
     results   |-> IF f = "none" THEN sv.results ELSE <<>>,
     total     |-> TimerOf(TRUE),
     embedding |-> TimerOf(Reached(SearchStages, "embed", f)),
     search    |-> TimerOf(Reached(SearchStages, "search", f)),
     events    |->
        <<Event("get_clients", [ok |-> f # "clients"])>>
        \o (IF Passed(SearchStages, "clients", f)
            THEN <<Event("validate_collection_config", [ok |-> f # "validate"])>>
            ELSE <<>>)
        \o (IF Passed(SearchStages, "validate", f)
            THEN <<Event("ensure_payload_indexes", [ok |-> f # "indexes"])>>
            ELSE <<>>)
        \o (IF Passed(SearchStages, "indexes", f)
            THEN <<Event("generate_mm_embedding",
                         [ok |-> f # "embed", input |-> query_mode])>>
            ELSE <<>>)
        \o (IF Passed(SearchStages, "embed", f)
            THEN <<Event("log_embedding_operation", [request_id |-> request_id])>>
            ELSE <<>>)
        \o (IF f = "none"
            THEN [i \in 1..Len(sv.requests) |-> Event("client.search", sv.requests[i])]
                 \o <<Event("log_vector_operation",
                            [request_id |-> request_id,
                             vector_count |-> Len(sv.results)])>>
            ELSE <<>>)]

\* log_request_completion(...).
Completion(request_id, total, embedding, search, results_count, success, error_message) ==
    Event("log_request_completion",
          [request_id |-> request_id, total_duration_ms |-> total,
           embedding_duration_ms |-> embedding, search_duration_ms |-> search,
           results_count |-> results_count, success |-> success,
           error_message |-> error_message])

\* Variant: the ranks are counted from 0.
log_search_results_fromZero(request_id, results) ==
    [i \in 1..Len(results) |->
        Event("log_search_result",
              [request_id |-> request_id, rank |-> i - 1,
               vector_id |-> results[i].id, score |-> results[i].score])]

\* log_search_results(request_id, results): one row per result, ranks from 1.
log_search_results(request_id, results) ==
    [i \in 1..Len(results) |->
        Event("log_search_result",
              [request_id |-> request_id, rank |-> i,
               vector_id |-> results[i].id, score |-> results[i].score])]

\* Variant: a search that brought no result is reported as failed.
SearchSucceeded_emptyIsFailure(b, request_id) ==
    [raised  |-> FALSE,
     events  |-> log_search_results(request_id, b.results)
                 \o <<Completion(request_id, b.total[1], b.embedding[1], b.search[1],
                                 Len(b.results), b.results # <<>>, None)>>,
     result  |-> [success |-> b.results # <<>>, results |-> b.results,
                  request_id |-> request_id, error |-> None,
                  performance |-> [total_duration_ms |-> b.total[1],
                                   embedding_duration_ms |-> b.embedding[1],
                                   search_duration_ms |-> b.search[1]]]]

\* The end of the try block after a search that went through (lines 124-147).
SearchSucceeded(b, request_id) ==
    [raised  |-> FALSE,
     events  |-> log_search_results(request_id, b.results)
                 \o <<Completion(request_id, b.total[1], b.embedding[1], b.search[1],
                                 Len(b.results), TRUE, None)>>,
     result  |-> [success |-> TRUE, results |-> b.results, request_id |-> request_id,
                  error |-> None,
                  performance |-> [total_duration_ms |-> b.total[1],
                                   embedding_duration_ms |-> b.embedding[1],
                                   search_duration_ms |-> b.search[1]]]]

\* Variant: the exception leaves execute_search.
SearchFailed_propagates(b, request_id) ==
    [raised |-> TRUE, events |-> <<>>,
     result |-> [success |-> FALSE, results |-> <<>>, request_id |-> request_id,
                 error |-> Some(b.error),
                 performance |-> [total_duration_ms |-> 0,
                                  embedding_duration_ms |-> 0,
                                  search_duration_ms |-> 0]]]

\* The except branch (lines 149-170).
SearchFailed(b, request_id) ==
    [raised  |-> FALSE,
     events  |-> <<Completion(request_id, OrZero(b.total), OrZero(b.embedding),
                              OrZero(b.search), 0, FALSE, Some(b.error))>>,
     result  |-> [success |-> FALSE, results |-> <<>>, request_id |-> request_id,
                  error |-> Some(b.error),
                  performance |-> [total_duration_ms |-> OrZero(b.total),
                                   embedding_duration_ms |-> OrZero(b.embedding),
                                   search_duration_ms |-> OrZero(b.search)]]]

\* What execute_search leaves behind: the request's start row, the calls of
\* the try block, and the calls and the return value of its end.
SearchReturn(start, b, end) ==
    [raised |-> end.raised,
     events |-> <<start>> \o b.events \o end.events,
     result |-> end.result]

SearchEnd(start, b, request_id) ==
    SearchReturn(start, b, IF b.raised THEN SearchFailed(b, request_id)
                            ELSE SearchSucceeded(b, request_id))

\* SearchService.execute_search: [raised, events, result].  The store is
\* searched with limit top_k, the filter of _build_filters and the score
\* threshold 0.1.
execute_search(st, user_id, query_mode, date_range, meal_types, top_k, env) ==
    SearchEnd(Event("log_request_start",
                    [request_id |-> env.request_id, user_id |-> user_id,
                     query_type |-> query_mode, top_k |-> top_k]),
              SearchBody(env.failAt,
                         search_vectors(st, env.q, top_k,
                                        Some(_build_filters(user_id, date_range, meal_types)),
                                        Some(1), env.storeRaises, env.order, FALSE),
                         env.request_id, query_mode),
              env.request_id)

\* ---------------------------------------------------- display of results
\* The exceptions a fetch from blob storage ends in: botocore's ClientError
\* with its error code and HTTP status, or an exception of another class.
NoSuchKeyError == [client_error |-> TRUE, code |-> "NoSuchKey", status |-> 404]
AccessDeniedError == [client_error |-> TRUE, code |-> "AccessDenied", status |-> 403]
ConnectionError == [client_error |-> FALSE, code |-> "", status |-> 0]

\* What blob storage does when an object is fetched: it answers (with the
\* object, or that there is no such key), denies access, or is not reached.
Fetches == {"ok", "denied", "unreachable"}

\* get_object_bytes_and_meta(s3, bucket, key).
get_object_bytes_and_meta(bl, key, fetch) ==
    IF fetch = "denied" THEN [raised |-> TRUE, error |-> Some(AccessDeniedError)]
    ELSE IF fetch = "unreachable" THEN [raised |-> TRUE, error |-> Some(ConnectionError)]
    ELSE IF key \in bl THEN [raised |-> FALSE, error |-> None]
    ELSE [raised |-> TRUE, error |-> Some(NoSuchKeyError)]

\* Variant: every ClientError counts as a missing object.
_is_missing_object_error_anyClientError(fetch_err) ==
    fetch_err.client_error

\* _is_missing_object_error(fetch_err).
_is_missing_object_error(fetch_err) ==
    /\ fetch_err.client_error
    /\ (fetch_err.code \in {"404", "NoSuchKey", "NotFound"} \/ fetch_err.status = 404)

\* What is shown for a result without image metadata in its payload.
NoImageMetadata(vector_id) ==
    [id |-> vector_id, fetched |-> FALSE, error |-> None, offered |-> FALSE,
     presigned |-> FALSE]

\* _display_result_image, r being the outcome of the fetch: the image is
\* shown, or the cleanup button is offered for a missing object, or the
\* presigned URL is tried.
DisplayFetched(vector_id, r) ==
    [id        |-> vector_id,
     fetched   |-> ~r.raised,
     error     |-> r.error,
     offered   |-> r.raised /\ _is_missing_object_error(r.error[1]),
     presigned |-> r.raised /\ ~_is_missing_object_error(r.error[1])]

_display_result_image(bl, img_key, vector_id, fetch) ==
    DisplayFetched(vector_id, get_object_bytes_and_meta(bl, img_key, fetch))

\* display_search_results(results, ...): one card per result, in order.
display_search_results(bl, results, fetch) ==
    [i \in 1..Len(results) |->
        IF "s3_image_key" \in DOMAIN results[i].payload
        THEN _display_result_image(bl, results[i].payload.s3_image_key, results[i].id, fetch)
        ELSE NoImageMetadata(results[i].id)]

\* The end of _execute_search (lines 206-236): the results of a successful
\* search are displayed.
Shown(r, bl, fetch) ==
    [stopped |-> FALSE, raised |-> r.raised, events |-> r.events, result |-> r.result,
     display |-> IF r.result.success
                 THEN display_search_results(bl, r.result.results, fetch)
                 ELSE <<>>]

\* A run that ended in the tab, at st.stop(), before execute_search was called.
Stopped == [stopped |-> TRUE, raised |-> FALSE, events |-> <<>>]

Called(r) == [stopped |-> FALSE, raised |-> r.raised, events |-> r.events, result |-> r.result]

\* ui/search.py _execute_search: the checks before the call, the call, and
\* the display of its results.
\* user_id_f is None for the empty string; hasText and hasImage tell whether
\* query_text is non-empty and query_image_bytes is not None.
_execute_search(st, bl, user_id_f, hasText, hasImage, date_range, meal_types, top_k, env) ==
    LET query_mode == IF hasText THEN "text" ELSE "image"
    IN  IF user_id_f = None THEN Stopped
        ELSE IF (query_mode = "text" /\ ~hasText) /\ (query_mode = "image" /\ ~hasImage)
        THEN Stopped
        ELSE Shown(execute_search(st, user_id_f[1], query_mode, date_range,
                                  meal_types, top_k, env),
                   bl, env.fetch)

\* The parameters of execute_search, and the keywords of the bulk tab's call.
ExecuteSearchParams ==
    {"user_id", "query_mode", "query_text", "query_image_bytes", "query_image_filename",
     "date_range", "meal_types", "top_k", "session_id"}

BulkSearchKeywords ==
    {"user_id", "query_mode", "query_text", "query_image_bytes", "query_image_filename",
     "date_range", "meal_types", "top_k", "session_id",
     "target_collection", "score_threshold"}

\* ui/bulk_search.py render_bulk_search_tab, from the button on: the check,
\* then the call of execute_search by keyword.  A keyword that is no parameter
\* of the function makes the call raise TypeError before its body runs.
render_bulk_search_tab(st, bulk_user_id, mode, hasText, hasImage, top_k, score_threshold, env) ==
    IF (mode = "Text" /\ ~hasText) /\ (mode = "Image" /\ ~hasImage)
    THEN Stopped
    ELSE IF ~(BulkSearchKeywords \subseteq ExecuteSearchParams)
    THEN [stopped |-> FALSE, raised |-> TRUE, events |-> <<>>]
    ELSE Called(execute_search(st, bulk_user_id, IF mode = "Text" THEN "text" ELSE "image",
                               <<>>, <<>>, top_k, env))

\* What the collaborators do during one search: the step that raises (if
\* any; the validation when the collection has another dimension than
\* config.output_dim), and for a run that gets as far as the store, the
\* embedding, whether the store's search raises (ties come in the order of
\* the ids), and what the blob storage does when an image is fetched.
SearchEnvs ==
    {[failAt |-> f, q |-> 1, storeRaises |-> FALSE, order |-> IdOrder, request_id |-> r,
      collection_dim |-> "output_dim", fetch |-> "ok"] :
        f \in {SearchStages[i] : i \in 1..Len(SearchStages)}, r \in RequestIds}
    \cup {[failAt |-> "none", q |-> q, storeRaises |-> sr, order |-> IdOrder, request_id |-> r,
           collection_dim |-> "output_dim", fetch |-> "ok"] :
            q \in Vectors, sr \in BOOLEAN, r \in RequestIds}
    \cup {[failAt |-> FirstFailure(SearchStages, "none", "validate", d), q |-> 1,
           storeRaises |-> FALSE, order |-> IdOrder, request_id |-> r,
           collection_dim |-> d, fetch |-> "ok"] :
            d \in Dims \ {"output_dim"}, r \in RequestIds}

UserIdInputs == {None} \cup {Some(v) : v \in Vals}

\* The search tab's inputs: the radio gives a text or an image, either of
\* which may be left empty, never both.
QueryInputs == {<<TRUE, FALSE>>, <<FALSE, TRUE>>, <<FALSE, FALSE>>}

\* A press of "Run Search" with the tab's inputs and the collaborators'
\* behaviour from the given sets.
ExecuteSearch(users, queries, date_ranges, meal_lists, top_ks, envs) ==
    /\ run.op = "none"
    /\ \E user_id_f \in users, query \in queries, date_range \in date_ranges,
          meal_types \in meal_lists, top_k \in top_ks, env \in envs :
        run' = [op |-> "search", user_id_f |-> user_id_f,
                hasText |-> query[1], hasImage |-> query[2],
                date_range |-> date_range, meal_types |-> meal_types,
                top_k |-> top_k, score_threshold |-> None, env |-> env,
                out |-> _execute_search(store, blobs, user_id_f, query[1], query[2],
                                        date_range, meal_types, top_k, env)]
    /\ UNCHANGED <<store, lastUpsert, call, filters, built, blobs, bulkStore>>

ExecuteSearchCall ==
    ExecuteSearch(UserIdInputs, QueryInputs, DateRanges, MealTypeLists, 1..MaxLimit,
                  SearchEnvs)

BulkSearchCall ==
    /\ run.op = "none"
    /\ \E bulk_user_id \in Vals, mode \in {"Text", "Image"}, present \in BOOLEAN,
          top_k \in 1..MaxLimit, score_threshold \in 0..MaxVec, env \in SearchEnvs :
        run' = [op |-> "bulk_search", user_id_f |-> Some(bulk_user_id),
                hasText |-> (mode = "Text" /\ present),
                hasImage |-> (mode = "Image" /\ present),
                date_range |-> <<>>, meal_types |-> <<>>,
                top_k |-> top_k, score_threshold |-> Some(score_threshold), env |-> env,
                out |-> render_bulk_search_tab(store, bulk_user_id, mode,
                            mode = "Text" /\ present, mode = "Image" /\ present,
                            top_k, score_threshold, env)]
    /\ UNCHANGED <<store, lastUpsert, call, filters, built, blobs, bulkStore>>

\* The tab has shown the outcome.
PipelineReturn ==
    /\ run.op # "none"
    /\ run' = NoRun
    /\ UNCHANGED <<store, lastUpsert, call, filters, built, blobs, bulkStore>>


\* =========================================================================
\* The single-item ingest: ui/ingest.py _handle_full_ingest with
\* IngestService.generate_description_and_embedding and
\* IngestService.upload_to_s3_and_index.  A blob is [id, kind], kind "image"
\* or "json".  The payload of the point keeps the fields the search filters
\* on: user_id, ts, meal_type.
\* =========================================================================
\* The calls of generate_description_and_embedding that can raise, in order.
DescribeStages == <<"generate_image_description", "generate_mm_embedding">>

\* Variant: the collection is validated after the uploads.
IndexStages_validateLast ==
    <<"ensure_collection_exists", "ensure_payload_indexes",
      "upload_image", "upload_json", "validate_collection_config", "upsert_vector">>

\* Variant: the point is upserted before the blobs are uploaded.
IndexStages_upsertFirst ==
    <<"ensure_collection_exists", "validate_collection_config", "ensure_payload_indexes",
      "upsert_vector", "upload_image", "upload_json">>

\* The calls of upload_to_s3_and_index to its collaborators, in order.
IndexStages ==
    <<"ensure_collection_exists", "validate_collection_config", "ensure_payload_indexes",
      "upload_image", "upload_json", "upsert_vector">>

\* Variant: a failure of the description or of the embedding is ignored.
generate_description_and_embedding_swallow(failAt) ==
    [raised |-> FALSE,
     events |-> <<Event("generate_image_description", [ok |-> failAt # "generate_image_description"]),
                  Event("generate_mm_embedding", [ok |-> failAt # "generate_mm_embedding"]),
                  Event("log_embedding_operation", [ok |-> TRUE])>>,
     description_ms |-> Some(1), embedding_ms |-> Some(1)]

\* generate_description_and_embedding: the description, then the embedding,
\* then the embedding's metrics row; an exception of either call leaves it.
generate_description_and_embedding(failAt) ==
    [raised |-> failAt \in {DescribeStages[i] : i \in 1..Len(DescribeStages)},
     events |->
        <<Event("generate_image_description", [ok |-> failAt # "generate_image_description"])>>
        \o (IF failAt # "generate_image_description"
            THEN <<Event("generate_mm_embedding", [ok |-> failAt # "generate_mm_embedding"])>>
            ELSE <<>>)
        \o (IF failAt \notin {"generate_image_description", "generate_mm_embedding"}
            THEN <<Event("log_embedding_operation", [ok |-> TRUE])>>
            ELSE <<>>),
     description_ms |-> TimerOf(TRUE),
     embedding_ms |-> TimerOf(failAt # "generate_image_description")]

\* One call of upload_to_s3_and_index to a collaborator and its effect on the
\* collection and the blob storage; upsert_vector returns false where the
\* other calls raise.
IndexStep(acc, stage, image_id, vector, payload, failAt) ==
    LET ok == failAt # stage
        up == upsert_vector(acc.store, image_id, vector, payload, ~ok)
    IN  [store  |-> IF stage = "upsert_vector" THEN up.store ELSE acc.store,
         blobs  |-> IF stage = "upload_image" /\ ok
                    THEN acc.blobs \cup {[id |-> image_id, kind |-> "image"]}
                    ELSE IF stage = "upload_json" /\ ok
                    THEN acc.blobs \cup {[id |-> image_id, kind |-> "json"]}
                    ELSE acc.blobs,
         events |-> Append(acc.events, Event(stage, [ok |-> ok, id |-> image_id])),
         raised |-> ~ok /\ stage # "upsert_vector",
         success |-> IF stage = "upsert_vector" THEN up.ok ELSE acc.success,
         s3_image_upload_ms |-> IF stage = "upload_image" THEN TimerOf(TRUE)
                                ELSE acc.s3_image_upload_ms,
         s3_embedding_upload_ms |-> IF stage = "upload_json" THEN TimerOf(TRUE)
                                    ELSE acc.s3_embedding_upload_ms,
         vector_duration_ms |-> IF stage = "upsert_vector" THEN TimerOf(TRUE)
                                ELSE acc.vector_duration_ms]

RECURSIVE IndexRun(_, _, _, _, _, _)
IndexRun(acc, j, image_id, vector, payload, failAt) ==
    IF j > Len(IndexStages) \/ acc.raised THEN acc
    ELSE IndexRun(IndexStep(acc, IndexStages[j], image_id, vector, payload, failAt),
                  j + 1, image_id, vector, payload, failAt)

\* upload_to_s3_and_index: the calls in order up to the first that raises,
\* then the upsert's metrics row and (success, details).
upload_to_s3_and_index(st, bl, image_id, vector, payload, failAt) ==
    LET r == IndexRun([store |-> st, blobs |-> bl, events |-> <<>>, raised |-> FALSE,
                       success |-> FALSE, s3_image_upload_ms |-> None,
                       s3_embedding_upload_ms |-> None, vector_duration_ms |-> None],
                      1, image_id, vector, payload, failAt)
    IN  [r EXCEPT !.events = IF r.raised THEN r.events
                             ELSE Append(r.events,
                                         Event("log_vector_operation", [ok |-> r.success]))]


\* The stage named for an exception of generate_description_and_embedding
\* (line 364) and of upload_to_s3_and_index (lines 392-401), from the words of
\* its message: msg tells whether it holds "converse", "s3" or "put_object",
\* "qdrant" or "upsert".
DescribeErrorStep(msg) ==
    IF msg.converse THEN "describe_image" ELSE "generate_embedding"

IndexErrorStep(msg, s3_img_ms) ==
    IF msg.s3 THEN (IF s3_img_ms = None THEN "upload_s3_image" ELSE "upload_s3_embedding")
    ELSE IF msg.qdrant THEN "qdrant_upsert"
    ELSE "validate_index"

\* Variant: the record is written for a successful ingest only.
LogIngestRecord_successOnly(record) ==
    IF record.success THEN <<Event("log_ingest_record", record)>> ELSE <<>>

\* The finally block: metrics_db.log_ingest_record(record).
LogIngestRecord(record) == <<Event("log_ingest_record", record)>>

\* The handler's error_step and error_message when the finally block is
\* entered, g and u being the outcomes of the two service calls.
IngestErrorStep(g, u, msg) ==
    IF g.raised THEN Some(DescribeErrorStep(msg))
    ELSE IF u.raised THEN Some(IndexErrorStep(msg, None))
    ELSE IF ~u.success THEN Some("qdrant_upsert")
    ELSE None

\* Variant: the value returned by the upsert is not looked at.
IngestErrorMessage_upsertUnchecked(g, u, failAt) ==
    IF g.raised \/ u.raised THEN Some(failAt)
    ELSE None

IngestErrorMessage(g, u, failAt) ==
    IF g.raised \/ u.raised THEN Some(failAt)
    ELSE IF ~u.success THEN Some("Vector upsert reported failure")
    ELSE None

\* The record handed to log_ingest_record (lines 426-450).
IngestRecord(g, u, image_id, error_step, error_message) ==
    [image_id |-> IF ~g.raised /\ ~u.raised THEN Some(image_id) ELSE None,
     description_ms |-> IF g.raised THEN None ELSE g.description_ms,
     embedding_ms |-> IF g.raised THEN None ELSE g.embedding_ms,
     s3_image_upload_ms |-> IF ~g.raised /\ ~u.raised THEN u.s3_image_upload_ms ELSE None,
     s3_embedding_upload_ms |->
         IF ~g.raised /\ ~u.raised THEN u.s3_embedding_upload_ms ELSE None,
     qdrant_upsert_ms |-> IF ~g.raised /\ ~u.raised THEN u.vector_duration_ms ELSE None,
     total_duration_ms |-> TimerOf(TRUE),
     success |-> error_message = None,
     error_step |-> error_step,
     error_message |-> error_message]

IngestOutcome(g, u, st, bl, record) ==
    [events |-> g.events \o (IF g.raised THEN <<>> ELSE u.events)
                \o LogIngestRecord(record),
     record |-> record,
     store  |-> IF g.raised THEN st ELSE u.store,
     blobs  |-> IF g.raised THEN bl ELSE u.blobs]

HandleIngest(st, bl, image_id, env, g, u) ==
    IngestOutcome(g, u, st, bl,
                  IngestRecord(g, u, image_id, IngestErrorStep(g, u, env.msg),
                               IngestErrorMessage(g, u, env.failAt)))

\* _handle_full_ingest from the spinner on: [events, record, store, blobs].
\* upload_to_s3_and_index is called only when the first call returned.
_handle_full_ingest(st, bl, image_id, user_id, meal, vector, env) ==
    HandleIngest(st, bl, image_id, env,
                 generate_description_and_embedding(env.failAt),
                 upload_to_s3_and_index(st, bl, image_id, vector,
                                        [user_id |-> user_id,
                                         ts |-> to_unix_ts(combine(meal.day, meal.time)),
                                         meal_type |-> meal.meal_type,
                                         s3_image_key |-> ImageKey(image_id),
                                         s3_embedding_key |-> VectorKey(image_id)],
                                        env.failAt))

\* What the collaborators do during one ingest: the call that fails (if any;
\* the validation when the collection has another dimension than
\* config.output_dim) and the words of the exception's message that the
\* handler looks for.
IngestEnvs ==
    {[failAt |-> "none", msg |-> [converse |-> FALSE, s3 |-> FALSE, qdrant |-> FALSE],
      collection_dim |-> "output_dim"],
     [failAt |-> "upsert_vector", msg |-> [converse |-> FALSE, s3 |-> FALSE, qdrant |-> FALSE],
      collection_dim |-> "output_dim"]}
    \cup {[failAt |-> DescribeStages[i],
           msg |-> [converse |-> c, s3 |-> FALSE, qdrant |-> FALSE],
           collection_dim |-> "output_dim"] :
             i \in 1..Len(DescribeStages), c \in BOOLEAN}
    \cup {[failAt |-> IndexStages[i],
           msg |-> [converse |-> FALSE, s3 |-> s, qdrant |-> q],
           collection_dim |-> "output_dim"] :
             i \in {j \in 1..Len(IndexStages) : IndexStages[j] # "upsert_vector"},
             s \in BOOLEAN, q \in BOOLEAN}
    \cup {[failAt |-> FirstFailure(DescribeStages \o IndexStages, "none",
                                   "validate_collection_config", d),
           msg |-> [converse |-> FALSE, s3 |-> FALSE, qdrant |-> q],
           collection_dim |-> d] :
             d \in Dims \ {"output_dim"}, q \in BOOLEAN}

\* The meals ingested: the day and time of the meal and its type.
MealInputs ==
    {[day |-> 0, time |-> dtime(12, 0, 0), meal_type |-> 1],
     [day |-> 1, time |-> dtime(12, 0, 0), meal_type |-> 2]}

\* str(uuid.uuid4()): an id in use nowhere; of the ids left, the first.
Unused(st, bl, id) == id \notin DOMAIN st /\ \A b \in bl : b.id # id
HasFreshId(st, bl) == \E i \in 1..Len(IdOrder) : Unused(st, bl, IdOrder[i])
FreshId(st, bl) ==
    IdOrder[CHOOSE i \in 1..Len(IdOrder) :
                /\ Unused(st, bl, IdOrder[i])
                /\ \A j \in 1..(i - 1) : ~Unused(st, bl, IdOrder[j])]

FullIngestCall ==
    /\ run.op = "none"
    /\ HasFreshId(store, blobs)
    /\ \E user_id \in Vals, meal \in MealInputs, env \in IngestEnvs :
        \E image_id \in {FreshId(store, blobs)} :
        \E r \in {_handle_full_ingest(store, blobs, image_id, user_id, meal, 1, env)} :
            /\ run' = [op |-> "ingest", image_id |-> image_id, user_id |-> user_id,
                       meal |-> meal, env |-> env, before |-> store, blobsBefore |-> blobs,
                       out |-> [events |-> r.events, record |-> r.record]]
            /\ store' = r.store
            /\ blobs' = r.blobs
    /\ UNCHANGED <<lastUpsert, call, filters, built, bulkStore>>

PipelineNext ==
    \/ ExecuteSearchCall
    \/ BulkSearchCall
    \/ FullIngestCall
    \/ PipelineReturn

PipelineSpec == Init /\ [][PipelineNext]_vars


\* =========================================================================
\* Properties of the pipelines (checked under PipelineSpec)
\* =========================================================================
\* A run of the search tab that got as far as calling execute_search.
SearchRan == run.op = "search" /\ ~run.out.stopped

\* The positions in the run's calls of the calls of one kind.
EventsOf(kind) == {i \in 1..Len(run.out.events) : run.out.events[i].kind = kind}

\* The calls that reach the embedding capability or the vector store.
ExternalKinds ==
    {"validate_collection_config", "ensure_payload_indexes", "generate_mm_embedding",
     "client.search"}

\* Timestamps around the day boundaries.
ProbeTimes ==
    UNION {{d * 86400 - 1, d * 86400, d * 86400 + 86399, d * 86400 + 86400} : d \in 0..2}

\* The conditions of a filter on one field.
ConditionsOn(must, field) == {i \in 1..Len(must) : must[i].key = field}

\* C12: the filter of every store search of the search pipeline holds one
\* equality condition on user_id with the requested user; its conditions on
\* ts exist exactly when the date range is a (start, end) tuple, and then admit
\* exactly the timestamps from 00:00:00 of start to 23:59:59 of end; it holds an
\* `in` condition on meal_type, with the given list, exactly when the list is
\* not empty; and it holds no other condition.
C12_PipelineFilter ==
    SearchRan =>
        \A n \in EventsOf("client.search") :
            LET qf == run.out.events[n].data.query_filter
                must == qf[1].must
                ranged == Len(run.date_range) = 2
                mealed == run.meal_types # <<>>
            IN  /\ qf # None
                /\ \E i \in 1..Len(must) :
                      /\ ConditionsOn(must, "user_id") = {i}
                      /\ must[i].match = Some(MatchValue(Scalar(run.user_id_f[1])))
                      /\ must[i].range = None
                /\ ranged <=> ConditionsOn(must, "ts") # {}
                /\ ranged =>
                      /\ \A i \in ConditionsOn(must, "ts") :
                            must[i].match = None /\ must[i].range # None
                      /\ \A t \in ProbeTimes :
                            (\A i \in ConditionsOn(must, "ts") :
                                ConditionHolds([ts |-> t], must[i]))
                            <=> /\ run.date_range[1] * 86400 <= t
                                /\ t <= run.date_range[2] * 86400 + 86399
                /\ mealed <=> ConditionsOn(must, "meal_type") # {}
                /\ mealed =>
                      \E i \in 1..Len(must) :
                          /\ ConditionsOn(must, "meal_type") = {i}
                          /\ must[i].match = Some(MatchAny(List(run.meal_types)))
                          /\ must[i].range = None
                /\ \A i \in 1..Len(must) : must[i].key \in {"user_id", "ts", "meal_type"}
                /\ Len(must) = 1 + (IF ranged THEN 2 ELSE 0) + (IF mealed THEN 1 ELSE 0)

\* A search with a two-day range and two meal types reached the store.
C12_Witness ==
    /\ SearchRan /\ EventsOf("client.search") # {}
    /\ run.date_range = <<0, 1>> /\ run.meal_types = <<1, 2>>

\* C13: a search without owner id, or without exactly one of query text and
\* query image, ends in the tab before execute_search is called, without a
\* call to the embedding capability or the vector store.
C13_ValidatedFirst ==
    (run.op = "search" /\ (run.user_id_f = None \/ (run.hasText <=> run.hasImage))) =>
        /\ run.out.stopped
        /\ \A i \in 1..Len(run.out.events) : run.out.events[i].kind \notin ExternalKinds

\* C14: when a step of execute_search's try block raises, the exception does
\* not leave execute_search; the request's last call is its completion update
\* with success false, results_count 0 and the error message, the result has
\* success false, and the durations of the embedding and of the search are 0
\* when that stage was never entered.
C14_FailureIsReported ==
    (SearchRan /\ run.env.failAt # "none") =>
        LET events == run.out.events
            done == events[Len(events)]
            perf == run.out.result.performance
            noEmbedding == EventsOf("generate_mm_embedding") = {}
            noSearch == run.env.failAt # "search"
        IN  /\ ~run.out.raised
            /\ ~run.out.result.success
            /\ run.out.result.error = Some(run.env.failAt)
            /\ done.kind = "log_request_completion"
            /\ ~done.data.success
            /\ done.data.results_count = 0
            /\ done.data.error_message = Some(run.env.failAt)
            /\ noEmbedding =>
                  done.data.embedding_duration_ms = 0 /\ perf.embedding_duration_ms = 0
            /\ noSearch =>
                  done.data.search_duration_ms = 0 /\ perf.search_duration_ms = 0

\* The embedding raised: the embedding stage was entered, the search was not.
C14_Witness ==
    /\ SearchRan /\ run.env.failAt = "embed"
    /\ run.out.events[Len(run.out.events)].data.embedding_duration_ms > 0

\* C15: a run of execute_search first records the request, before any call to
\* the embedding capability or the vector store; the request gets exactly one
\* completion update, the run's last call; result rows are written only by a
\* successful search, under the request's id, one per result in result order
\* with ranks 1..n, before the completion update.
C15_RequestLifecycle ==
    SearchRan =>
        LET events == run.out.events
            rid == events[1].data.request_id
            rows == EventsOf("log_search_result")
        IN  /\ events[1].kind = "log_request_start"
            /\ EventsOf("log_request_start") = {1}
            /\ EventsOf("log_request_completion") = {Len(events)}
            /\ events[Len(events)].data.request_id = rid
            /\ rows # {} => run.out.result.success
            /\ run.out.result.success =>
                  /\ Cardinality(rows) = Len(run.out.result.results)
                  /\ \A k \in 1..Len(run.out.result.results) :
                        LET i == Len(events) - 1 - Len(run.out.result.results) + k
                        IN  /\ i \in rows
                            /\ events[i].data.request_id = rid
                            /\ events[i].data.rank = k
                            /\ events[i].data.vector_id = run.out.result.results[k].id

\* A successful search with two results.
C15_Witness ==
    /\ SearchRan /\ run.out.result.success
    /\ Len(run.out.result.results) = 2

\* C16: a search run whose collaborators all work searches the store with the
\* caller's top_k as limit and, where the caller supplies a score threshold
\* (the bulk search tab), with that threshold.
C16_CallerValuesUsed ==
    (run.op \in {"search", "bulk_search"} /\ ~run.out.stopped
        /\ run.env.failAt = "none" /\ ~run.env.storeRaises) =>
        /\ EventsOf("client.search") # {}
        /\ \A n \in EventsOf("client.search") :
              /\ run.out.events[n].data.limit = run.top_k
              /\ run.score_threshold # None =>
                    run.out.events[n].data.score_threshold = run.score_threshold


IngestRan == run.op = "ingest"

\* The calls of the run to the description, the embedding, the vector store
\* and the blob storage, without the metrics rows.
RECURSIVE StageCalls(_)
StageCalls(events) ==
    IF events = <<>> THEN <<>>
    ELSE (IF Head(events).kind \in {"log_embedding_operation", "log_vector_operation",
                                    "log_ingest_record"}
          THEN <<>> ELSE <<Head(events)>>)
         \o StageCalls(Tail(events))

Kinds(events) == [i \in 1..Len(events) |-> events[i].kind]

C18_Original ==
    IngestRan =>
        LET calls == StageCalls(run.out.events)
        IN  /\ IsPrefix(Kinds(calls),
                        <<"generate_image_description", "generate_mm_embedding",
                          "upload_image", "upload_json",
                          "ensure_collection_exists", "validate_collection_config",
                          "ensure_payload_indexes", "upsert_vector">>)
            /\ \A i \in 1..(Len(calls) - 1) : calls[i].data.ok

\* C18 amended: the stages run in the order description, embedding,
\* collection and indexes, image upload, metadata upload, upsert; a stage
\* starts only after every earlier one succeeded, so the collection is ensured
\* before the uploads and the upsert is issued only with both blobs stored.
C18_Amended ==
    IngestRan =>
        LET calls == StageCalls(run.out.events)
        IN  /\ IsPrefix(Kinds(calls),
                        <<"generate_image_description", "generate_mm_embedding",
                          "ensure_collection_exists", "validate_collection_config",
                          "ensure_payload_indexes",
                          "upload_image", "upload_json", "upsert_vector">>)
            /\ \A i \in 1..(Len(calls) - 1) : calls[i].data.ok
            /\ EventsOf("upsert_vector") # {} =>
                  /\ [id |-> run.image_id, kind |-> "image"] \in blobs
                  /\ [id |-> run.image_id, kind |-> "json"] \in blobs
            /\ run.out.record.success =>
                  /\ Len(calls) = 8
                  /\ run.image_id \in DOMAIN store

\* An ingest went through all its stages.
C18_Witness ==
    /\ IngestRan /\ run.out.record.success
    /\ run.image_id \in DOMAIN store /\ run.image_id \notin DOMAIN run.before

\* C19: an ingest writes exactly one ingest record, as its last call,
\* whatever stage failed and also when none did.
C19_OneRecord ==
    IngestRan =>
        /\ EventsOf("log_ingest_record") = {Len(run.out.events)}
        /\ run.out.events[Len(run.out.events)].data = run.out.record
        /\ run.out.record.success <=> (run.env.failAt = "none")

\* The metadata upload failed after the image was stored: one record.
C19_Witness ==
    /\ IngestRan /\ run.env.failAt = "upload_json"
    /\ [id |-> run.image_id, kind |-> "image"] \in blobs
    /\ ~run.out.record.success

\* C20: the error_step of a failed ingest's record is one of describe,
\* generate_embedding, upload_image, upload_metadata, vector_upsert, and it is
\* the stage that failed.
C20_StageIdentified ==
    (IngestRan /\ ~run.out.record.success) =>
        LET step == run.out.record.error_step
            f == run.env.failAt
        IN  /\ step # None
            /\ step[1] \in {"describe", "generate_embedding", "upload_image",
                            "upload_metadata", "vector_upsert"}
            /\ f = "generate_image_description" => step = Some("describe")
            /\ f = "generate_mm_embedding" => step = Some("generate_embedding")
            /\ f = "upload_image" => step = Some("upload_image")
            /\ f = "upload_json" => step = Some("upload_metadata")
            /\ f = "upsert_vector" => step = Some("vector_upsert")

\* The weaker reading under the code's own stage names is violated as well:
\* a failed metadata upload is never recorded as upload_s3_embedding.
C20_OwnNames ==
    (IngestRan /\ ~run.out.record.success) =>
        LET step == run.out.record.error_step
            f == run.env.failAt
        IN  /\ f = "generate_image_description" => step = Some("describe_image")
            /\ f = "generate_mm_embedding" => step = Some("generate_embedding")
            /\ f = "upload_image" => step = Some("upload_s3_image")
            /\ f = "upload_json" => step = Some("upload_s3_embedding")
            /\ f = "upsert_vector" => step = Some("qdrant_upsert")


\* =========================================================================
\* The bulk ingest: ui/bulk_ingest.py _run_bulk_ingest with
\* IngestService.upload_to_s3_and_prepare_point and upsert_vectors_batch on
\* the bulk collection.  The items are processed one after the other; the
\* points of the items that went through are written by one call of
\* upsert_vectors_batch after the loop.
\* =========================================================================
\* The ids uuid4 hands out to the items of bulk runs, in order.
BulkIdOrder == <<"c", "d", "e">>

\* config.bulk_user_id, and meal_type="bulk" in the encoding of MealTypes.
BulkUserIds == {MaxVal}
BulkMealType == 0

\* More points than this are written in chunks of this size (line 162).
BulkChunk == 512

\* The calls before the loop (lines 69-71); none of them is inside a try.
PrepareStages ==
    <<"get_qdrant_client", "ensure_collection_exists", "validate_collection_config">>

PrepareEvents(check) ==
    [i \in 1..(IF check = "none" THEN Len(PrepareStages) ELSE StageNo(PrepareStages, check)) |->
        Event(PrepareStages[i], [ok |-> PrepareStages[i] # check])]

\* The calls of one item that can raise, in order.
ItemStages ==
    <<"generate_image_description", "generate_mm_embedding", "upload_image", "upload_json">>

\* What can happen to one item: nothing, or one of its calls raises.  With
\* fast_path the description is not generated.
ItemFailures(fast_path) ==
    ({"none"} \cup {ItemStages[i] : i \in 1..Len(ItemStages)})
        \ (IF fast_path THEN {"generate_image_description"} ELSE {})

BulkFreeIds(st, bl) == {i \in 1..Len(BulkIdOrder) : Unused(st, bl, BulkIdOrder[i])}
BulkFreshId(st, bl) ==
    BulkIdOrder[CHOOSE i \in BulkFreeIds(st, bl) : \A j \in BulkFreeIds(st, bl) : i <= j]

\* Step 1 of an item (lines 103-125): the embedding alone with fast_path,
\* generate_description_and_embedding otherwise.
ItemEmbedding(fast_path, failAt) ==
    IF fast_path
    THEN [raised |-> failAt = "generate_mm_embedding",
          events |-> <<Event("generate_mm_embedding",
                             [ok |-> failAt # "generate_mm_embedding"])>>,
          description_ms |-> Some(0),
          embedding_ms |-> TimerOf(TRUE)]
    ELSE generate_description_and_embedding(failAt)

\* Variant: the point is built although the upload of the JSON failed.
upload_to_s3_and_prepare_point_jsonOptional(bl, image_id, vector, user_id, meal_datetime, meal_type, failAt) ==
    [raised |-> failAt = "upload_image",
     ok     |-> TRUE,
     blobs  |-> bl \cup (IF failAt # "upload_image" THEN {ImageKey(image_id)} ELSE {})
                   \cup (IF failAt \notin {"upload_image", "upload_json"}
                         THEN {VectorKey(image_id)} ELSE {}),
     events |-> <<Event("upload_image", [ok |-> failAt # "upload_image", id |-> image_id])>>
                \o (IF failAt # "upload_image"
                    THEN <<Event("upload_json", [ok |-> failAt # "upload_json", id |-> image_id])>>
                    ELSE <<>>),
     point  |-> PointStruct(image_id, vector,
                            [user_id |-> user_id, ts |-> to_unix_ts(meal_datetime),
                             meal_type |-> meal_type,
                             s3_image_key |-> ImageKey(image_id),
                             s3_embedding_key |-> VectorKey(image_id)])]

\* upload_to_s3_and_prepare_point: the image, then the JSON, then the point is
\* built and (True, details) returned; no call to the vector store.  An
\* exception of an upload leaves it.
upload_to_s3_and_prepare_point(bl, image_id, vector, user_id, meal_datetime, meal_type, failAt) ==
    [raised |-> failAt \in {"upload_image", "upload_json"},
     ok     |-> TRUE,
     blobs  |-> bl \cup (IF failAt # "upload_image" THEN {ImageKey(image_id)} ELSE {})
                   \cup (IF failAt \notin {"upload_image", "upload_json"}
                         THEN {VectorKey(image_id)} ELSE {}),
     events |-> <<Event("upload_image", [ok |-> failAt # "upload_image", id |-> image_id])>>
                \o (IF failAt # "upload_image"
                    THEN <<Event("upload_json", [ok |-> failAt # "upload_json", id |-> image_id])>>
                    ELSE <<>>),
     point  |-> PointStruct(image_id, vector,
                            [user_id |-> user_id, ts |-> to_unix_ts(meal_datetime),
                             meal_type |-> meal_type,
                             s3_image_key |-> ImageKey(image_id),
                             s3_embedding_key |-> VectorKey(image_id)])]

\* Whether the item counts as failed: an exception (line 148), or ok false
\* (line 140).
ItemFailed(g, u) == g.raised \/ u.raised \/ ~u.ok

\* Variant: the point of an item is written as soon as it is built.
BulkItemEnd_upsertEach(acc, idx, g, u) ==
    [blobs      |-> IF g.raised THEN acc.blobs ELSE u.blobs,
     points     |-> IF ItemFailed(g, u) THEN acc.points ELSE Append(acc.points, u.point),
     succeeded  |-> IF ItemFailed(g, u) THEN acc.succeeded ELSE acc.succeeded + 1,
     failed     |-> IF ItemFailed(g, u) THEN acc.failed + 1 ELSE acc.failed,
     desc_times |-> IF g.raised THEN acc.desc_times ELSE acc.desc_times + 1,
     events     |-> acc.events
                    \o <<Event("process_item", [idx |-> idx])>>
                    \o g.events
                    \o (IF g.raised THEN <<>> ELSE u.events)
                    \o (IF ItemFailed(g, u) THEN <<>>
                        ELSE <<Event("upsert_vector", [ok |-> TRUE, id |-> u.point.id])>>)
                    \o <<Event("progress", [idx |-> idx, ok |-> ~ItemFailed(g, u)])>>]

\* Variant: a failed item is skipped without being counted.
BulkItemEnd_failedUncounted(acc, idx, g, u) ==
    [blobs      |-> IF g.raised THEN acc.blobs ELSE u.blobs,
     points     |-> IF ItemFailed(g, u) THEN acc.points ELSE Append(acc.points, u.point),
     succeeded  |-> IF ItemFailed(g, u) THEN acc.succeeded ELSE acc.succeeded + 1,
     failed     |-> acc.failed,
     desc_times |-> IF g.raised THEN acc.desc_times ELSE acc.desc_times + 1,
     events     |-> acc.events
                    \o <<Event("process_item", [idx |-> idx])>>
                    \o g.events
                    \o (IF g.raised THEN <<>> ELSE u.events)
                    \o <<Event("progress", [idx |-> idx, ok |-> ~ItemFailed(g, u)])>>]

\* One pass of the loop body (lines 88-152), g and u being the outcomes of
\* step 1 and step 2: the counters, the points collected, the blobs stored.
BulkItemEnd(acc, idx, g, u) ==
    [blobs      |-> IF g.raised THEN acc.blobs ELSE u.blobs,
     points     |-> IF ItemFailed(g, u) THEN acc.points ELSE Append(acc.points, u.point),
     succeeded  |-> IF ItemFailed(g, u) THEN acc.succeeded ELSE acc.succeeded + 1,
     failed     |-> IF ItemFailed(g, u) THEN acc.failed + 1 ELSE acc.failed,
     desc_times |-> IF g.raised THEN acc.desc_times ELSE acc.desc_times + 1,
     events     |-> acc.events
                    \o <<Event("process_item", [idx |-> idx])>>
                    \o g.events
                    \o (IF g.raised THEN <<>> ELSE u.events)
                    \o <<Event("progress", [idx |-> idx, ok |-> ~ItemFailed(g, u)])>>]

BulkItem(acc, idx, failAt, st, fast_path, bulk_user_id) ==
    BulkItemEnd(acc, idx, ItemEmbedding(fast_path, failAt),
                upload_to_s3_and_prepare_point(acc.blobs, BulkFreshId(st, acc.blobs), 1,
                                               bulk_user_id, combine(0, dtime(12, 0, 0)),
                                               BulkMealType, failAt))

\* The loop over the uploads, from item idx on.
RECURSIVE BulkLoop(_, _, _, _, _, _)
BulkLoop(acc, items, idx, st, fast_path, bulk_user_id) ==
    IF idx > Len(items) THEN acc
    ELSE BulkLoop(BulkItem(acc, idx, items[idx], st, fast_path, bulk_user_id),
                  items, idx + 1, st, fast_path, bulk_user_id)

\* Variant: the summary tells a failed batch upsert by zero succeeded items.
BulkRunRecord_upsertCounts(images_total, acc, b, fast_path) ==
    [images_total |-> images_total,
     succeeded |-> IF b.ok THEN acc.succeeded ELSE 0,
     failed |-> IF b.ok THEN acc.failed ELSE images_total,
     duration_ms_total |-> TimerOf(TRUE),
     duration_ms_qdrant_upsert |-> TimerOf(TRUE),
     avg_description_ms |-> TimerOf(acc.desc_times > 0),
     avg_s3_image_upload_ms |-> TimerOf(acc.succeeded > 0),
     notes |-> IF fast_path THEN Some("fast_path") ELSE None,
     error_message |-> IF b.ok THEN None ELSE Some("qdrant_upsert_failed")]

\* The summary handed to log_bulk_ingest_run (lines 167-180), b being what
\* upsert_vectors_batch returned.
BulkRunRecord(images_total, acc, b, fast_path) ==
    [images_total |-> images_total,
     succeeded |-> acc.succeeded,
     failed |-> acc.failed,
     duration_ms_total |-> TimerOf(TRUE),
     duration_ms_qdrant_upsert |-> TimerOf(TRUE),
     avg_description_ms |-> TimerOf(acc.desc_times > 0),
     avg_s3_image_upload_ms |-> TimerOf(acc.succeeded > 0),
     notes |-> IF fast_path THEN Some("fast_path") ELSE None,
     error_message |-> IF b.ok THEN None ELSE Some("qdrant_upsert_failed")]

\* After the loop (lines 155-182): the batch upsert, then the summary.
BulkFinish(acc, b, record) ==
    [raised |-> FALSE,
     events |-> acc.events
                \o <<Event("upsert_vectors_batch",
                           [points |-> acc.points, ok |-> b.ok, requests |-> b.requests]),
                     Event("log_bulk_ingest_run", record)>>,
     record |-> Some(record),
     store  |-> b.store,
     blobs  |-> acc.blobs]

BulkWrite(st, acc, n, fast_path, failing) ==
    BulkFinish(acc,
               upsert_vectors_batch(st, acc.points,
                                    IF Len(acc.points) <= BulkChunk THEN 0 ELSE BulkChunk,
                                    failing),
               BulkRunRecord(n, acc,
                             upsert_vectors_batch(st, acc.points,
                                                  IF Len(acc.points) <= BulkChunk THEN 0
                                                  ELSE BulkChunk,
                                                  failing),
                             fast_path))

\* _run_bulk_ingest: [raised, events, record, store, blobs].  `check` is the
\* call before the loop that raises ("none": none does); its exception
\* leaves the function.
_run_bulk_ingest(st, bl, items, fast_path, bulk_user_id, check, failing) ==
    IF check # "none"
    THEN [raised |-> TRUE, events |-> PrepareEvents(check), record |-> None,
          store |-> st, blobs |-> bl]
    ELSE BulkWrite(st,
                   BulkLoop([blobs |-> bl, points |-> <<>>, succeeded |-> 0, failed |-> 0,
                             desc_times |-> 0, events |-> PrepareEvents("none")],
                            items, 1, st, fast_path, bulk_user_id),
                   Len(items), fast_path, failing)

\* What the vector store does during one bulk run: the call before the loop
\* that raises (the validation when the collection has another dimension),
\* and the requests of the batch upsert that raise.
BulkEnvs ==
    {[check |-> PrepareStages[i], collection_dim |-> "output_dim", failing |-> {}] :
        i \in 1..Len(PrepareStages)}
    \cup {[check |-> FirstFailure(PrepareStages, "none", "validate_collection_config", d),
           collection_dim |-> d, failing |-> f] :
            d \in Dims, f \in {{}, {1}}}

BulkIngestCall ==
    /\ run.op = "none"
    /\ \E n \in 1..MaxPoints, fast_path \in BOOLEAN, bulk_user_id \in BulkUserIds,
          env \in BulkEnvs :
        /\ n <= Cardinality(BulkFreeIds(bulkStore, blobs))
        /\ \E items \in [1..n -> ItemFailures(fast_path)] :
           \E r \in {_run_bulk_ingest(bulkStore, blobs, items, fast_path, bulk_user_id,
                                      env.check, env.failing)} :
              /\ run' = [op |-> "bulk_ingest", uploads |-> items, fast_path |-> fast_path,
                         bulk_user_id |-> bulk_user_id, env |-> env,
                         before |-> bulkStore, blobsBefore |-> blobs,
                         out |-> [raised |-> r.raised, events |-> r.events,
                                  record |-> r.record]]
              /\ bulkStore' = r.store
              /\ blobs' = r.blobs
    /\ UNCHANGED <<store, lastUpsert, call, filters, built>>

IngestNext ==
    \/ FullIngestCall
    \/ BulkIngestCall
    \/ PipelineReturn

IngestSpec == Init /\ [][IngestNext]_vars


\* =========================================================================
\* Properties of the bulk ingest (checked under IngestSpec)
\* =========================================================================
\* A bulk run whose calls before the loop went through.
BulkRan == run.op = "bulk_ingest" /\ ~run.out.raised

\* The data of the calls of one kind, in the order of the calls.
RECURSIVE DataOf(_, _)
DataOf(events, kind) ==
    IF events = <<>> THEN <<>>
    ELSE (IF Head(events).kind = kind THEN <<Head(events).data>> ELSE <<>>)
         \o DataOf(Tail(events), kind)

IsOk(d) == d.ok
IdsOf(seq) == [i \in 1..Len(seq) |-> seq[i].id]

\* The position of the last call of one kind (0: no such call).
LastOf(events, kind) ==
    IF \E i \in 1..Len(events) : events[i].kind = kind
    THEN CHOOSE i \in 1..Len(events) :
            /\ events[i].kind = kind
            /\ \A j \in (i + 1)..Len(events) : events[j].kind # kind
    ELSE 0

\* C21: a bulk run whose collection check passed goes through every item,
\* once and in input order, whichever items fail at description, embedding or
\* upload; its summary has succeeded + failed = N with succeeded the number
\* of items without a failure, and the batch upsert gets exactly the points
\* of those items, in input order.
C21_BulkNeverAborts ==
    (run.op = "bulk_ingest" /\ run.env.check = "none") =>
        LET n == Len(run.uploads)
            started == DataOf(run.out.events, "process_item")
            done == DataOf(run.out.events, "progress")
            batch == DataOf(run.out.events, "upsert_vectors_batch")
            stored == SelectSeq(DataOf(run.out.events, "upload_json"), IsOk)
        IN  /\ ~run.out.raised
            /\ started = [i \in 1..n |-> [idx |-> i]]
            /\ done = [i \in 1..n |-> [idx |-> i, ok |-> run.uploads[i] = "none"]]
            /\ run.out.record[1].images_total = n
            /\ run.out.record[1].succeeded + run.out.record[1].failed = n
            /\ run.out.record[1].succeeded
                 = Cardinality({i \in 1..n : run.uploads[i] = "none"})
            /\ Len(batch) = 1
            /\ Len(batch[1].points) = run.out.record[1].succeeded
            /\ IdsOf(batch[1].points) = IdsOf(stored)

\* Three items of which the second fails at its description: two succeeded,
\* one failed, two points handed over.
C21_Witness ==
    /\ BulkRan
    /\ run.uploads = <<"none", "generate_image_description", "none">>
    /\ run.out.record[1].succeeded = 2
    /\ run.out.record[1].failed = 1
    /\ Len(DataOf(run.out.events, "upsert_vectors_batch")[1].points) = 2

\* C22 as stated: every bulk run invokes the batch upsert exactly once, after
\* its last item, and issues no upsert while the items are processed.
C22_Original ==
    run.op = "bulk_ingest" =>
        /\ Len(DataOf(run.out.events, "upsert_vectors_batch")) = 1
        /\ LastOf(run.out.events, "upsert_vectors_batch")
             > LastOf(run.out.events, "progress")
        /\ EventsOf("upsert_vector") = {}

\* C22, amended: a bulk run whose collection check passed invokes the batch
\* upsert exactly once, after the last item was processed, issues no upsert
\* per item and leaves the collection as it was when the batch upsert is
\* invoked; a run whose collection check failed processes no item and invokes
\* no upsert at all.
C22_Amended ==
    /\ BulkRan =>
        /\ Len(DataOf(run.out.events, "upsert_vectors_batch")) = 1
        /\ LastOf(run.out.events, "upsert_vectors_batch")
             > LastOf(run.out.events, "progress")
        /\ Len(DataOf(run.out.events, "progress")) = Len(run.uploads)
        /\ EventsOf("upsert_vector") = {}
        /\ \A id \in DOMAIN bulkStore :
              id \in DOMAIN run.before
              \/ \E i \in 1..Len(DataOf(run.out.events, "upsert_vectors_batch")[1].points) :
                    DataOf(run.out.events, "upsert_vectors_batch")[1].points[i].id = id
    /\ (run.op = "bulk_ingest" /\ run.out.raised) =>
        /\ EventsOf("upsert_vectors_batch") = {}
        /\ EventsOf("upsert_vector") = {}
        /\ EventsOf("process_item") = {}
        /\ bulkStore = run.before

\* Two items went through and their points were written by the one batch
\* upsert at the end.
C22_Witness ==
    /\ BulkRan
    /\ Len(run.uploads) >= 2
    /\ Len(DataOf(run.out.events, "upsert_vectors_batch")[1].points) >= 2
    /\ DataOf(run.out.events, "upsert_vectors_batch")[1].ok
    /\ DOMAIN bulkStore # DOMAIN run.before

\* C23: every bulk run writes exactly one summary, as its last call, after
\* the batch upsert, whatever the collection check, the items and the batch
\* upsert did.
C23_OneBulkRun ==
    run.op = "bulk_ingest" =>
        /\ EventsOf("log_bulk_ingest_run") = {Len(run.out.events)}
        /\ LastOf(run.out.events, "upsert_vectors_batch") = Len(run.out.events) - 1

\* C25: every point of the collection and of the bulk collection has its
\* image blob and its metadata JSON blob in blob storage under its id.
C25_PointsHaveBlobs ==
    /\ \A id \in DOMAIN store : ImageKey(id) \in blobs /\ VectorKey(id) \in blobs
    /\ \A id \in DOMAIN bulkStore : ImageKey(id) \in blobs /\ VectorKey(id) \in blobs

\* Both collections hold a point, and the last bulk run had an item whose
\* metadata upload failed after its image was stored.
C25_Witness ==
    /\ DOMAIN store # {}
    /\ DOMAIN bulkStore # {}
    /\ BulkRan
    /\ \E i \in 1..Len(run.uploads) : run.uploads[i] = "upload_json"
    /\ \E b \in blobs : b.kind = "image" /\ VectorKey(b.id) \notin blobs

\* C29: the summary of a bulk run reports as succeeded the number of points
\* prepared, whether or not the batch upsert went through; error_message is
\* qdrant_upsert_failed exactly when the batch upsert returned failure, and
\* nothing else in the summary depends on it; after a failed batch upsert the
\* blobs of the prepared items are in storage and the collection is as before.
C29_UpsertFailureInMessageOnly ==
    BulkRan =>
        LET batch == DataOf(run.out.events, "upsert_vectors_batch")[1]
            rec == run.out.record[1]
        IN  /\ rec.succeeded = Len(batch.points)
            /\ rec.failed = Len(run.uploads) - Len(batch.points)
            /\ rec.error_message
                 = (IF batch.ok THEN None ELSE Some("qdrant_upsert_failed"))
            /\ batch.ok <=> \A i \in 1..Len(batch.requests) : batch.requests[i].ok
            /\ \A i \in 1..Len(batch.points) :
                  /\ ImageKey(batch.points[i].id) \in blobs
                  /\ VectorKey(batch.points[i].id) \in blobs
            /\ ~batch.ok => bulkStore = run.before

\* Two points were prepared and the batch upsert failed.
C29_Witness ==
    /\ BulkRan
    /\ ~DataOf(run.out.events, "upsert_vectors_batch")[1].ok
    /\ run.out.record[1].succeeded = 2
    /\ run.out.record[1].error_message = Some("qdrant_upsert_failed")
    /\ Cardinality(blobs \ run.blobsBefore) = 4


\* =========================================================================
\* Further properties of the search and of the single-item ingest (checked
\* under PipelineSpec)
\* =========================================================================
\* C24: when the collection has another dimension than the configured
\* embedding size, a single-item ingest uploads no blob and upserts no point
\* (blob storage and collection stay as they were, the record has success
\* false), a search calls neither the embedding nor the store's search and
\* returns a failure, and the collection is validated once, not again.
C24_MismatchAborts ==
    /\ (IngestRan /\ run.env.collection_dim # "output_dim") =>
        /\ EventsOf("upload_image") = {}
        /\ EventsOf("upload_json") = {}
        /\ EventsOf("upsert_vector") = {}
        /\ blobs = run.blobsBefore
        /\ store = run.before
        /\ Cardinality(EventsOf("validate_collection_config")) = 1
        /\ \A i \in EventsOf("validate_collection_config") : ~run.out.events[i].data.ok
        /\ ~run.out.record.success
    /\ (SearchRan /\ run.env.collection_dim # "output_dim") =>
        /\ EventsOf("generate_mm_embedding") = {}
        /\ EventsOf("client.search") = {}
        /\ Cardinality(EventsOf("validate_collection_config")) = 1
        /\ \A i \in EventsOf("validate_collection_config") : ~run.out.events[i].data.ok
        /\ ~run.out.result.success

\* An ingest into a collection of another dimension, after an ingest that
\* went through: the failed validation is the ingest's last call to a
\* collaborator.
C24_Witness ==
    /\ IngestRan
    /\ run.env.collection_dim = "another_dim"
    /\ DOMAIN run.before # {}
    /\ StageCalls(run.out.events)[Len(StageCalls(run.out.events))].kind
         = "validate_collection_config"


\* C27: when the store's search request fails in execute_search after client
\* set-up, validation and embedding succeeded, execute_search returns without
\* an exception a result with success true and no results, and the request's
\* completion row has success true, results_count 0 and no error message; no
\* result row is written.
C27_StoreFailureIsEmptySuccess ==
    (SearchRan /\ run.env.failAt = "none" /\ run.env.storeRaises) =>
        /\ ~run.out.raised
        /\ EventsOf("client.search") # {}
        /\ \A n \in EventsOf("client.search") : ~run.out.events[n].data.ok
        /\ run.out.result.success
        /\ run.out.result.results = <<>>
        /\ run.out.result.error = None
        /\ EventsOf("log_search_result") = {}
        /\ EventsOf("log_request_completion") = {Len(run.out.events)}
        /\ run.out.events[Len(run.out.events)].data.success
        /\ run.out.events[Len(run.out.events)].data.results_count = 0
        /\ run.out.events[Len(run.out.events)].data.error_message = None

\* The store's search failed for a user who has a point in the collection.
C27_Witness ==
    /\ SearchRan /\ run.env.failAt = "none" /\ run.env.storeRaises
    /\ run.date_range = <<>> /\ run.meal_types = <<>>
    /\ \E id \in DOMAIN store : store[id].payload.user_id = run.user_id_f[1]
    /\ run.out.result.success

\* C28: the record of a single-item ingest has success true exactly when the
\* upsert was called and returned success; with success true its error_step
\* and error_message are empty, with success false both are set.
C28_RecordSuccess ==
    IngestRan =>
        /\ run.out.record.success <=>
              \E n \in EventsOf("upsert_vector") : run.out.events[n].data.ok
        /\ run.out.record.success =>
              /\ run.out.record.error_step = None
              /\ run.out.record.error_message = None
        /\ ~run.out.record.success =>
              /\ run.out.record.error_step # None
              /\ run.out.record.error_message # None

\* The upsert was called and reported failure: the record says so.
C28_Witness ==
    /\ IngestRan /\ run.env.failAt = "upsert_vector"
    /\ EventsOf("upsert_vector") # {}
    /\ ~run.out.record.success
    /\ run.out.record.error_step = Some("qdrant_upsert")
    /\ run.image_id \notin DOMAIN store


\* =========================================================================
\* The orphan cleanup: ui/components.py _cleanup_orphaned_vector, run when
\* the button shown by _display_result_image for a missing image is pressed.
\* Images leave blob storage by deletions made outside the application.
\* =========================================================================
\* Variant: the JSON is deleted only after the point was deleted.
CleanupEnd_jsonOnSuccess(bl, payload, d, jsonRaises) ==
    [raised |-> FALSE,
     events |-> [i \in 1..Len(d.requests) |-> Event("client.delete", d.requests[i])]
                \o (IF d.ok /\ "s3_embedding_key" \in DOMAIN payload
                    THEN <<Event("delete_object",
                                 [key |-> payload.s3_embedding_key, ok |-> ~jsonRaises])>>
                    ELSE <<>>),
     delete_success |-> d.ok,
     reported |-> IF d.ok THEN "success" ELSE "error",
     store |-> d.store,
     blobs |-> IF d.ok /\ "s3_embedding_key" \in DOMAIN payload /\ ~jsonRaises
               THEN bl \ {payload.s3_embedding_key} ELSE bl]

\* Lines 183-196, d being what delete_vector returned: the JSON named by the
\* payload is deleted, an exception of that deletion is printed and dropped,
\* and the message tells whether the point was deleted.
CleanupEnd(bl, payload, d, jsonRaises) ==
    [raised |-> FALSE,
     events |-> [i \in 1..Len(d.requests) |-> Event("client.delete", d.requests[i])]
                \o (IF "s3_embedding_key" \in DOMAIN payload
                    THEN <<Event("delete_object",
                                 [key |-> payload.s3_embedding_key, ok |-> ~jsonRaises])>>
                    ELSE <<>>),
     delete_success |-> d.ok,
     reported |-> IF d.ok THEN "success" ELSE "error",
     store |-> d.store,
     blobs |-> IF "s3_embedding_key" \in DOMAIN payload /\ ~jsonRaises
               THEN bl \ {payload.s3_embedding_key} ELSE bl]

\* _cleanup_orphaned_vector(vector_id, payload, ...): [raised, events,
\* delete_success, reported, store, blobs].
_cleanup_orphaned_vector(st, bl, vector_id, payload, env) ==
    IF vector_id = None
    THEN [raised |-> FALSE, events |-> <<>>, delete_success |-> FALSE,
          reported |-> "error", store |-> st, blobs |-> bl]
    ELSE CleanupEnd(bl, payload, delete_vector(st, vector_id[1], env.deleteRaises),
                    env.jsonDeleteRaises)

\* What the stores do during one cleanup: whether the deletion of the point
\* raises, and whether the deletion of the JSON raises.
CleanupEnvs == [deleteRaises : BOOLEAN, jsonDeleteRaises : BOOLEAN]

\* The searches of the runs in which results are looked at: a text query of
\* a user without date or meal filter.
DisplayEnvs ==
    {[failAt |-> "none", q |-> 1, storeRaises |-> sr, order |-> IdOrder,
      request_id |-> "r1", collection_dim |-> "output_dim", fetch |-> f] :
        sr \in BOOLEAN, f \in Fetches}

ShowResultsCall ==
    ExecuteSearch({Some(v) : v \in Vals}, {<<TRUE, FALSE>>}, {<<>>}, {<<>>}, {MaxLimit},
                  DisplayEnvs)

\* The image of a point is deleted from blob storage by someone else.
ImageRemoved ==
    /\ run.op = "none"
    /\ \E id \in DOMAIN store :
        /\ ImageKey(id) \in blobs
        /\ blobs' = blobs \ {ImageKey(id)}
    /\ UNCHANGED <<store, lastUpsert, call, filters, built, run, bulkStore>>

\* The button of the i-th displayed result is pressed.
CleanupCall ==
    /\ run.op = "search"
    /\ ~run.out.stopped
    /\ \E i \in 1..Len(run.out.display), env \in CleanupEnvs :
        /\ run.out.display[i].offered
        /\ \E r \in {_cleanup_orphaned_vector(store, blobs, Some(run.out.display[i].id),
                                              run.out.result.results[i].payload, env)} :
            /\ run' = [op |-> "cleanup", vector_id |-> run.out.display[i].id,
                       payload |-> run.out.result.results[i].payload, env |-> env,
                       shown |-> run.out.display[i],
                       before |-> store, blobsBefore |-> blobs,
                       out |-> [raised |-> r.raised, events |-> r.events,
                                delete_success |-> r.delete_success,
                                reported |-> r.reported]]
            /\ store' = r.store
            /\ blobs' = r.blobs
    /\ UNCHANGED <<lastUpsert, call, filters, built, bulkStore>>

CleanupNext ==
    \/ FullIngestCall
    \/ ImageRemoved
    \/ ShowResultsCall
    \/ CleanupCall
    \/ PipelineReturn

CleanupSpec == Init /\ [][CleanupNext]_vars

\* =========================================================================
\* Properties of the orphan cleanup (checked under CleanupSpec)
\* =========================================================================
\* C26: a point leaves the collection only in a step that is a cleanup
\* started from a displayed result whose image fetch had failed with a
\* missing-object error, and it is the point of that result; the button is
\* shown for such results only, and their image is not in blob storage.  A
\* search with its display, an ingest and the loss of an image remove no point.
C26_DeleteOnlyByCleanup ==
    [][/\ (\E id \in DOMAIN store : id \notin DOMAIN store') =>
            /\ run.op = "search"
            /\ run'.op = "cleanup"
            /\ DOMAIN store \ DOMAIN store' = {run'.vector_id}
            /\ run'.shown.offered
            /\ \E i \in 1..Len(run.out.display) : run.out.display[i] = run'.shown
       /\ DOMAIN bulkStore \subseteq DOMAIN bulkStore'
       /\ (run'.op = "search" /\ ~run'.out.stopped) =>
            /\ store' = store
            /\ blobs' = blobs
            /\ \A i \in 1..Len(run'.out.display) :
                  run'.out.display[i].offered =>
                      /\ run'.out.display[i].error # None
                      /\ run'.out.display[i].error[1].client_error
                      /\ run'.out.display[i].error[1].code = "NoSuchKey"
                      /\ ImageKey(run'.out.display[i].id) \notin blobs']_vars

\* An orphaned point was found by a search and deleted by the cleanup.
C26_Witness ==
    /\ run.op = "cleanup"
    /\ run.out.delete_success
    /\ run.vector_id \in DOMAIN run.before
    /\ run.vector_id \notin DOMAIN store
    /\ ImageKey(run.vector_id) \notin run.blobsBefore

\* C30: a cleanup asks blob storage to delete the metadata JSON of the point
\* once, whether or not the point was deleted; it ends without an exception
\* also when that deletion raised, the JSON then staying in storage; it
\* reports success exactly when delete_vector returned true; and no image
\* blob is deleted.
C30_CleanupOutcome ==
    run.op = "cleanup" =>
        /\ Len(DataOf(run.out.events, "delete_object")) = 1
        /\ DataOf(run.out.events, "delete_object")[1].key = VectorKey(run.vector_id)
        /\ DataOf(run.out.events, "delete_object")[1].ok = ~run.env.jsonDeleteRaises
        /\ ~run.out.raised
        /\ run.env.jsonDeleteRaises => blobs = run.blobsBefore
        /\ ~run.env.jsonDeleteRaises => blobs = run.blobsBefore \ {VectorKey(run.vector_id)}
        /\ (run.out.reported = "success") <=> run.out.delete_success
        /\ run.out.delete_success <=> ~run.env.deleteRaises
        /\ run.out.delete_success <=> (run.vector_id \notin DOMAIN store)
        /\ {b \in blobs : b.kind = "image"} = {b \in run.blobsBefore : b.kind = "image"}

\* The deletion of the point failed and the JSON was deleted all the same,
\* while the image of another point stayed where it was.
C30_Witness ==
    /\ run.op = "cleanup"
    /\ ~run.out.delete_success
    /\ run.out.reported = "error"
    /\ VectorKey(run.vector_id) \in run.blobsBefore
    /\ VectorKey(run.vector_id) \notin blobs
    /\ run.vector_id \in DOMAIN store
    /\ \E b \in blobs : b.kind = "image"

====
